---- MODULE Spec2Model ----
(***************************************************************************)
(* Defaults Registry, Event Bus and Translation Verbs of the Spiny Flannel *)
(* Society prototype (core/defaults_registry.py, core/events.py,           *)
(* systems/signals.py).                                                    *)
(*                                                                         *)
(* Floating point values of the catalog are kept in hundredths             *)
(* (0.2 -> 20, 0.15 -> 15, 1.0 -> 100).  Optional[...] results are         *)
(* sequences of length at most one: None is << >>, a present value v is    *)
(* <<v>>.  The f-string built by Default.read is kept as the record of the *)
(* four fields it interpolates.                                            *)
(***************************************************************************)
EXTENDS Integers, Sequences, FiniteSets, TLC

\* ------------------------------------------------------------------ bounds
\* most calls made in one session
MaxCalls == 4

\* most handlers subscribed to one event type
MaxListeners == 2

\* longest prefix of the session's call log that is remembered
MaxTrace == 2

\* the WindprintRig activations of a session
MaxActivations == 21

\* the chapter completions of a session
MaxCompletions == 4

\* the handler calls of one emit that are followed
MaxInvocations == 4

\* the encounters started in a session
MaxEncounters == 2

\* the combat verbs used with success in a session
MaxVerbUses == 3

\* the patterns of one encounter
MaxPatterns == 3

\* ------------------------------------------------------- optional values
None == << >>

Some(v) == <<v>>

\* -------------------------------------------------------------- catalog
\* The Default(...) constructor arguments of _register_all, in call order.
Catalog ==
  <<
    [key |-> "timing_window", label |-> "Timing Window Width",
     description |-> "Assumes all players react within 200 ms. Penalises slower processing speeds.",
     category |-> "TIMING", rigid_value |-> 20, rewritten_value |-> 50],
    [key |-> "platform_rhythm", label |-> "Platform Rhythm",
     description |-> "Platforms move at one fixed tempo. No accommodation for observation before action.",
     category |-> "TIMING", rigid_value |-> 100, rewritten_value |-> 60],
    [key |-> "coyote_time", label |-> "Coyote Time",
     description |-> "Zero grace period after leaving a ledge. Assumes instant spatial awareness.",
     category |-> "TIMING", rigid_value |-> 0, rewritten_value |-> 20],
    [key |-> "jump_buffer", label |-> "Jump Buffer Window",
     description |-> "No input buffering. Requires frame-perfect timing.",
     category |-> "TIMING", rigid_value |-> 0, rewritten_value |-> 15],
    [key |-> "visual_clutter", label |-> "Visual Density",
     description |-> "All particle effects, decorations, and ambient motion rendered simultaneously. Assumes high sensory filtering.",
     category |-> "SENSORY", rigid_value |-> 100, rewritten_value |-> 40],
    [key |-> "audio_layering", label |-> "Audio Layering",
     description |-> "Multiple concurrent audio streams with no ducking. Assumes ability to parse layered sound.",
     category |-> "SENSORY", rigid_value |-> 100, rewritten_value |-> 50],
    [key |-> "screen_shake", label |-> "Screen Shake Intensity",
     description |-> "Full camera shake on impacts. Assumes vestibular comfort.",
     category |-> "SENSORY", rigid_value |-> 100, rewritten_value |-> 0],
    [key |-> "route_strictness", label |-> "Route Strictness",
     description |-> "Single valid path through each area. Penalises alternative approaches.",
     category |-> "ROUTING", rigid_value |-> 100, rewritten_value |-> 30],
    [key |-> "safe_route_visibility", label |-> "Safe Route Visibility",
     description |-> "Accessible routes are hidden behind harder paths. Assumes safe routes are 'easy mode'.",
     category |-> "ROUTING", rigid_value |-> 0, rewritten_value |-> 100],
    [key |-> "communication_rigidity", label |-> "Communication Mode",
     description |-> "Only one expression style is accepted. Penalises non-verbal or icon-based communication.",
     category |-> "SOCIAL", rigid_value |-> 100, rewritten_value |-> 0],
    [key |-> "social_script_penalty", label |-> "Social Script Penalty",
     description |-> "NPCs penalise 'unexpected' dialogue responses. Assumes one correct conversational flow.",
     category |-> "SOCIAL", rigid_value |-> 100, rewritten_value |-> 0],
    [key |-> "failure_penalty", label |-> "Failure Penalty",
     description |-> "Falling or missing a jump resets significant progress. Assumes failure is deviation, not information.",
     category |-> "FAILURE", rigid_value |-> 100, rewritten_value |-> 10],
    [key |-> "retry_cost", label |-> "Retry Cost",
     description |-> "Retrying a section costs resources. Assumes learning happens on the first attempt.",
     category |-> "FAILURE", rigid_value |-> 100, rewritten_value |-> 0],
    [key |-> "consent_gates", label |-> "Consent Gates",
     description |-> "No confirmation before danger zones. Assumes willingness to proceed.",
     category |-> "CONSENT", rigid_value |-> 0, rewritten_value |-> 100],
    [key |-> "opt_out_available", label |-> "Opt-Out Availability",
     description |-> "No way to leave an encounter once started. Assumes commitment is always free.",
     category |-> "CONSENT", rigid_value |-> 0, rewritten_value |-> 100]
  >>

\* class EventType: the two names the verbs emit
DEFAULT_READ == "default_read"

DEFAULT_REWRITTEN == "default_rewritten"

\* source= argument of the events built by TranslationVerbs
VerbSource == "translation_verbs"

\* ----------------------------------------------------------- Default
\* dataclass construction followed by __post_init__
NewDefault(c) ==
  [key |-> c.key, label |-> c.label, description |-> c.description,
   category |-> c.category,
   rigid_value |-> c.rigid_value, rewritten_value |-> c.rewritten_value,
   current_value |-> c.rigid_value,
   is_read |-> FALSE, is_rewritten |-> FALSE]

\* the text returned by Default.read, as the fields it is formatted from
Describe(d) ==
  [label |-> d.label, description |-> d.description,
   current_value |-> d.current_value, rigid_value |-> d.rigid_value]

\* Default.read that also puts current_value back to the rigid value
Default_read_reset(d) ==
  LET d1 == [d EXCEPT !.is_read = TRUE, !.current_value = d.rigid_value]
  IN  [d |-> d1, ret |-> Describe(d1)]

\* Default.read that flips is_read instead of setting it
Default_read_toggle(d) ==
  LET d1 == [d EXCEPT !.is_read = ~d.is_read]
  IN  [d |-> d1, ret |-> Describe(d1)]

\* Default.read: result is the Default afterwards and the returned text
Default_read(d) ==
  LET d1 == [d EXCEPT !.is_read = TRUE]
  IN  [d |-> d1, ret |-> Describe(d1)]

\* Default.rewrite without the is_read test
Default_rewrite_ungated(d) ==
  [d |-> [d EXCEPT !.is_rewritten = TRUE,
                   !.current_value = d.rewritten_value],
   ret |-> TRUE]

\* Default.rewrite that sets the flag and forgets the value
Default_rewrite_flag_only(d) ==
  IF ~d.is_read
    THEN [d |-> d, ret |-> FALSE]
    ELSE [d |-> [d EXCEPT !.is_rewritten = TRUE], ret |-> TRUE]

\* Default.rewrite that switches back to rigid when called again
Default_rewrite_toggle(d) ==
  IF ~d.is_read
    THEN [d |-> d, ret |-> FALSE]
    ELSE IF d.is_rewritten
      THEN [d |-> [d EXCEPT !.is_rewritten = FALSE,
                            !.current_value = d.rigid_value],
            ret |-> TRUE]
      ELSE [d |-> [d EXCEPT !.is_rewritten = TRUE,
                            !.current_value = d.rewritten_value],
            ret |-> TRUE]

\* Default.rewrite that refuses a Default that is already rewritten
Default_rewrite_once(d) ==
  IF ~d.is_read \/ d.is_rewritten
    THEN [d |-> d, ret |-> FALSE]
    ELSE [d |-> [d EXCEPT !.is_rewritten = TRUE,
                          !.current_value = d.rewritten_value],
          ret |-> TRUE]

\* Default.rewrite that changes the value and leaves is_rewritten as it is
Default_rewrite_unmarked(d) ==
  IF ~d.is_read
    THEN [d |-> d, ret |-> FALSE]
    ELSE [d |-> [d EXCEPT !.current_value = d.rewritten_value],
          ret |-> TRUE]

\* Default.rewrite: result is the Default afterwards and the returned bool
Default_rewrite(d) ==
  IF ~d.is_read
    THEN [d |-> d, ret |-> FALSE]
    ELSE [d |-> [d EXCEPT !.is_rewritten = TRUE,
                          !.current_value = d.rewritten_value],
          ret |-> TRUE]

\* ------------------------------------------------------ DefaultsRegistry
\* DefaultsRegistry._register: plain dict assignment
Registry_register(reg, d) == (d.key :> d) @@ reg

RECURSIVE RegisterFrom_short(_, _)
\* _register_all without the registration of its last entry
RegisterFrom_short(reg, i) ==
  IF i >= Len(Catalog) THEN reg
  ELSE RegisterFrom_short(Registry_register(reg, NewDefault(Catalog[i])),
                          i + 1)

RECURSIVE RegisterFrom(_, _)
\* the successive _register calls of _register_all, from entry i on
RegisterFrom(reg, i) ==
  IF i > Len(Catalog) THEN reg
  ELSE RegisterFrom(Registry_register(reg, NewDefault(Catalog[i])), i + 1)

\* DefaultsRegistry.__init__: empty dict, then _register_all
Registry_init == RegisterFrom(<< >>, 1)

\* DefaultsRegistry.get that answers 0 for a key it does not know
Registry_get_zero(reg, key) ==
  IF key \in DOMAIN reg THEN Some(reg[key].current_value) ELSE Some(0)

\* DefaultsRegistry.get
Registry_get(reg, key) ==
  IF key \in DOMAIN reg THEN Some(reg[key].current_value) ELSE None

\* DefaultsRegistry.get_default
Registry_get_default(reg, key) ==
  IF key \in DOMAIN reg THEN Some(reg[key]) ELSE None

\* DefaultsRegistry.read
Registry_read(reg, key) ==
  IF key \in DOMAIN reg
    THEN LET r == Default_read(reg[key])
         IN  [reg |-> [reg EXCEPT ![key] = r.d], ret |-> Some(r.ret)]
    ELSE [reg |-> reg, ret |-> None]

\* DefaultsRegistry.rewrite that applies the rewrite to every Default
Registry_rewrite_all(reg, key) ==
  IF key \in DOMAIN reg
    THEN [reg |-> [k \in DOMAIN reg |-> Default_rewrite(reg[k]).d],
          ret |-> Default_rewrite(reg[key]).ret]
    ELSE [reg |-> reg, ret |-> FALSE]

\* DefaultsRegistry.rewrite
Registry_rewrite(reg, key) ==
  IF key \in DOMAIN reg
    THEN LET r == Default_rewrite(reg[key])
         IN  [reg |-> [reg EXCEPT ![key] = r.d], ret |-> r.ret]
    ELSE [reg |-> reg, ret |-> FALSE]

\* DefaultsRegistry.read_count
read_count(reg) == Cardinality({k \in DOMAIN reg : reg[k].is_read})

\* DefaultsRegistry.rewritten_count
rewritten_count(reg) == Cardinality({k \in DOMAIN reg : reg[k].is_rewritten})

\* progress that counts the Defaults that were read
progress_of_read(reg) ==
  LET total == Cardinality(DOMAIN reg)
  IN  IF total # 0 THEN [num |-> read_count(reg), den |-> total]
      ELSE [num |-> 0, den |-> 1]

\* DefaultsRegistry.progress, as the fraction num/den it divides
progress(reg) ==
  LET total == Cardinality(DOMAIN reg)
  IN  IF total # 0 THEN [num |-> rewritten_count(reg), den |-> total]
      ELSE [num |-> 0, den |-> 1]

\* all_rewritten that is content with one rewritten Default
all_rewritten_any(reg) == \E k \in DOMAIN reg : reg[k].is_rewritten

\* DefaultsRegistry.all_rewritten
all_rewritten(reg) == \A k \in DOMAIN reg : reg[k].is_rewritten

\* -------------------------------------------------------------- EventBus
\* EventBus.__init__
Bus_init == [listeners |-> << >>, history |-> << >>]

\* self._listeners.get(event_type, [])
ListenersOf(bus, t) ==
  IF t \in DOMAIN bus.listeners THEN bus.listeners[t] ELSE << >>

\* EventBus.subscribe: setdefault(event_type, []).append(handler)
subscribe(bus, t, h) ==
  [bus EXCEPT !.listeners = (t :> Append(ListenersOf(bus, t), h)) @@ @]

\* unsubscribe that forgets every handler of the type
unsubscribe_whole_type(bus, t, h) ==
  IF t \in DOMAIN bus.listeners
    THEN [bus EXCEPT !.listeners[t] = << >>]
    ELSE bus

\* EventBus.unsubscribe: rebuild the list without the handler
unsubscribe(bus, t, h) ==
  IF t \in DOMAIN bus.listeners
    THEN [bus EXCEPT !.listeners[t] = SelectSeq(@, LAMBDA x : x # h)]
    ELSE bus

\* history that hands out the bus's own list
history_alias(bus) == [items |-> bus.history, own |-> FALSE]

\* EventBus.history: list(self._history), a list of the caller's own with
\* the same events
history(bus) == [items |-> bus.history, own |-> TRUE]

\* EventBus.clear_history
clear_history(bus) == [bus EXCEPT !.history = << >>]

\* identities of handler callables that raise when they are called
Raisers == {"boom"}

\* A subscribed handler.  A recording handler appends the event to
\* events_received, as the lambdas of run_stress_test do, together with
\* what the registry shows for the event's key at the moment it runs; a
\* raising handler raises at once.  The result is the list afterwards and
\* whether the call raised.
Handler(h, recv, ev, reg) ==
  IF h \in Raisers
    THEN [recv |-> recv, raised |-> TRUE]
    ELSE IF "key" \in DOMAIN ev.data
      THEN [recv |-> Append(recv,
                      [handler |-> h, event |-> ev,
                       seen_value |-> Registry_get(reg, ev.data.key),
                       seen_rewritten |-> reg[ev.data.key].is_rewritten]),
            raised |-> FALSE]
      ELSE [recv |-> Append(recv, [handler |-> h, event |-> ev]),
            raised |-> FALSE]

RECURSIVE Dispatch_swallow(_, _, _, _, _)
\* the handler loop with each call wrapped in try/except: pass
Dispatch_swallow(ls, i, recv, ev, reg) ==
  IF i > Len(ls) THEN [recv |-> recv, raised |-> FALSE]
  ELSE Dispatch_swallow(ls, i + 1, Handler(ls[i], recv, ev, reg).recv, ev, reg)

RECURSIVE Dispatch_reversed(_, _, _, _, _)
\* the handler loop walking the listener list from its end
Dispatch_reversed(ls, i, recv, ev, reg) ==
  IF i > Len(ls) THEN [recv |-> recv, raised |-> FALSE]
  ELSE LET r == Handler(ls[Len(ls) + 1 - i], recv, ev, reg)
       IN  IF r.raised THEN r
           ELSE Dispatch_reversed(ls, i + 1, r.recv, ev, reg)

RECURSIVE Dispatch(_, _, _, _, _)
\* the for loop of EventBus.emit, from position i of the listener list;
\* an exception in a handler leaves the loop
Dispatch(ls, i, recv, ev, reg) ==
  IF i > Len(ls) THEN [recv |-> recv, raised |-> FALSE]
  ELSE LET r == Handler(ls[i], recv, ev, reg)
       IN  IF r.raised THEN r
           ELSE Dispatch(ls, i + 1, r.recv, ev, reg)

\* EventBus.emit that calls the listeners and keeps no history
emit_no_history(bus, recv, ev, reg) ==
  LET d == Dispatch(ListenersOf(bus, ev.type), 1, recv, ev, reg)
  IN  [bus |-> bus, recv |-> d.recv, raised |-> d.raised]

\* EventBus.emit: append to the history, then call each listener in order.
\* reg is the registry as it stands when emit is called.
emit(bus, recv, ev, reg) ==
  LET d == Dispatch(ListenersOf(bus, ev.type), 1, recv, ev, reg)
  IN  [bus  |-> [bus EXCEPT !.history = Append(@, ev)],
       recv |-> d.recv, raised |-> d.raised]

\* ------------------------------------------------------ TranslationVerbs
\* TranslationVerbs.read_default; raised tells that the call ended in an
\* exception and returned nothing
read_default(reg, bus, recv, key) ==
  LET r == Registry_read(reg, key)
  IN  IF r.ret # None
        THEN LET e == emit(bus, recv,
                           [type |-> DEFAULT_READ,
                            data |-> [key |-> key, description |-> r.ret[1]],
                            source |-> VerbSource],
                           r.reg)
             IN  [reg |-> r.reg, bus |-> e.bus, recv |-> e.recv,
                  ret |-> r.ret, raised |-> e.raised]
        ELSE [reg |-> r.reg, bus |-> bus, recv |-> recv,
              ret |-> r.ret, raised |-> FALSE]

\* rewrite_default that refuses to rewrite under Guard
rewrite_default_cushion_only(reg, bus, recv, key, via_mode) ==
  LET r == IF via_mode = "guard"
             THEN [reg |-> reg, ret |-> FALSE]
             ELSE Registry_rewrite(reg, key)
  IN  IF r.ret
        THEN LET e == emit(bus, recv,
                           [type |-> DEFAULT_REWRITTEN,
                            data |-> [key |-> key, mode |-> via_mode],
                            source |-> VerbSource],
                           r.reg)
             IN  [reg |-> r.reg, bus |-> e.bus, recv |-> e.recv,
                  ret |-> r.ret, raised |-> e.raised]
        ELSE [reg |-> r.reg, bus |-> bus, recv |-> recv,
              ret |-> r.ret, raised |-> FALSE]

\* rewrite_default that emits before it asks the registry to rewrite
rewrite_default_emit_first(reg, bus, recv, key, via_mode) ==
  LET r == Registry_rewrite(reg, key)
  IN  IF r.ret
        THEN LET e == emit(bus, recv,
                           [type |-> DEFAULT_REWRITTEN,
                            data |-> [key |-> key, mode |-> via_mode],
                            source |-> VerbSource],
                           reg)
             IN  [reg |-> r.reg, bus |-> e.bus, recv |-> e.recv,
                  ret |-> r.ret, raised |-> e.raised]
        ELSE [reg |-> r.reg, bus |-> bus, recv |-> recv,
              ret |-> r.ret, raised |-> FALSE]

\* rewrite_default that emits for every known key, successful or not
rewrite_default_always_emits(reg, bus, recv, key, via_mode) ==
  LET r == Registry_rewrite(reg, key)
  IN  IF key \in DOMAIN reg
        THEN LET e == emit(bus, recv,
                           [type |-> DEFAULT_REWRITTEN,
                            data |-> [key |-> key, mode |-> via_mode],
                            source |-> VerbSource],
                           r.reg)
             IN  [reg |-> r.reg, bus |-> e.bus, recv |-> e.recv,
                  ret |-> r.ret, raised |-> e.raised]
        ELSE [reg |-> r.reg, bus |-> bus, recv |-> recv,
              ret |-> r.ret, raised |-> FALSE]

\* rewrite_default that takes the rewrite back when a handler raises
rewrite_default_rollback(reg, bus, recv, key, via_mode) ==
  LET r == Registry_rewrite(reg, key)
  IN  IF r.ret
        THEN LET e == emit(bus, recv,
                           [type |-> DEFAULT_REWRITTEN,
                            data |-> [key |-> key, mode |-> via_mode],
                            source |-> VerbSource],
                           r.reg)
             IN  [reg |-> IF e.raised THEN reg ELSE r.reg,
                  bus |-> e.bus, recv |-> e.recv,
                  ret |-> r.ret, raised |-> e.raised]
        ELSE [reg |-> r.reg, bus |-> bus, recv |-> recv,
              ret |-> r.ret, raised |-> FALSE]

\* TranslationVerbs.rewrite_default; raised as for read_default
rewrite_default(reg, bus, recv, key, via_mode) ==
  LET r == Registry_rewrite(reg, key)
  IN  IF r.ret
        THEN LET e == emit(bus, recv,
                           [type |-> DEFAULT_REWRITTEN,
                            data |-> [key |-> key, mode |-> via_mode],
                            source |-> VerbSource],
                           r.reg)
             IN  [reg |-> r.reg, bus |-> e.bus, recv |-> e.recv,
                  ret |-> r.ret, raised |-> e.raised]
        ELSE [reg |-> r.reg, bus |-> bus, recv |-> recv,
              ret |-> r.ret, raised |-> FALSE]

\* ------------------------------------------------------ registry queries
\* the keys of the registry in dict order (order of first registration)
KeyOrder(reg) ==
  SelectSeq([i \in 1..Len(Catalog) |-> Catalog[i].key],
            LAMBDA k : k \in DOMAIN reg)

\* self._defaults.values()
Values(reg) == [i \in 1..Len(KeyOrder(reg)) |-> reg[KeyOrder(reg)[i]]]

\* DefaultsRegistry.list_readable
list_readable(reg) == SelectSeq(Values(reg), LAMBDA d : ~d.is_read)

\* DefaultsRegistry.list_rewritable
list_rewritable(reg) ==
  SelectSeq(Values(reg), LAMBDA d : d.is_read /\ ~d.is_rewritten)

\* DefaultsRegistry.by_category
by_category(reg, category) ==
  SelectSeq(Values(reg), LAMBDA d : d.category = category)

\* class DefaultCategory, in declaration order
DefaultCategory ==
  <<"TIMING", "SENSORY", "ROUTING", "SOCIAL", "FAILURE", "CONSENT">>

\* the summary scan_area builds for one Default; the hint is the
\* description, cut at 60 characters when it is longer
Summary(d) ==
  [key |-> d.key, label |-> d.label, category |-> d.category,
   hint |-> [of |-> d.description, cut_at |-> 60]]

\* TranslationVerbs.scan_area
scan_area(reg, area_defaults) ==
  LET known == SelectSeq(area_defaults,
                 LAMBDA k : /\ Registry_get_default(reg, k) # None
                            /\ ~reg[k].is_read)
  IN  [i \in 1..Len(known) |-> Summary(reg[known[i]])]

\* ------------------------------------------------------ consumer adapters
\* x or c  that always takes the fallback
OrElse_fallback(x, c) == c

\* Python's  x or c  on an optional number: c when x is None or 0
OrElse(x, c) == IF x = None \/ x[1] = 0 THEN c ELSE x[1]

\* accessibility.sensory_rules.get_sensory_profile
get_sensory_profile(reg) ==
  [visual_density   |-> OrElse(Registry_get(reg, "visual_clutter"), 40),
   audio_layers     |-> OrElse(Registry_get(reg, "audio_layering"), 50),
   screen_shake     |-> OrElse(Registry_get(reg, "screen_shake"), 0),
   subtitle_style   |-> "standard",
   motion_intensity |-> OrElse(Registry_get(reg, "platform_rhythm"), 60)]

\* class WindprintMode
CUSHION == "cushion"

GUARD == "guard"

\* WindprintState(): energy in whole units
Rig_init ==
  [active_mode |-> None, energy |-> 100, energy_max |-> 100,
   energy_regen |-> 5, mode_switch_cost |-> 5]

\* WindprintRigSystem.activate_cushion: the rig and the registry
\* afterwards, and the success flag of the returned dict
activate_cushion(rig, reg) ==
  LET cost == IF rig.active_mode = Some(GUARD)
                THEN rig.mode_switch_cost ELSE 0
  IN  IF rig.energy < cost
        THEN [rig |-> rig, reg |-> reg, success |-> FALSE]
        ELSE [rig |-> [rig EXCEPT !.energy = @ - cost,
                                  !.active_mode = Some(CUSHION)],
              reg |-> reg, success |-> TRUE]

\* WindprintRigSystem.activate_guard
activate_guard(rig, reg) ==
  LET cost == IF rig.active_mode = Some(CUSHION)
                THEN rig.mode_switch_cost ELSE 0
  IN  IF rig.energy < cost
        THEN [rig |-> rig, reg |-> reg, success |-> FALSE]
        ELSE [rig |-> [rig EXCEPT !.energy = @ - cost,
                                  !.active_mode = Some(GUARD)],
              reg |-> reg, success |-> TRUE]

\* get_timing_multiplier that takes no notice of the active mode
get_timing_multiplier_flat(rig, reg) ==
  OrElse(Registry_get(reg, "timing_window"), 20)

\* WindprintRigSystem.get_timing_multiplier, in hundredths (x 1.5 = x 3 / 2)
get_timing_multiplier(rig, reg) ==
  LET base == OrElse(Registry_get(reg, "timing_window"), 20)
  IN  IF rig.active_mode = Some(CUSHION) THEN (base * 3) \div 2 ELSE base

\* WindprintRigSystem.get_route_flexibility, in hundredths
get_route_flexibility(rig, reg) ==
  LET base == 100 - OrElse(Registry_get(reg, "route_strictness"), 100)
  IN  IF rig.active_mode = Some(GUARD) THEN base \div 2 ELSE base

\* ---------------------------------------------------------- PresetMoment
\* accessibility.presets.PRESETS, overrides in hundredths
PRESETS ==
  [default |->
     [id |-> "default", name |-> "Society Standard",
      overrides |-> << >>],
   gentle |->
     [id |-> "gentle", name |-> "Gentle Current",
      overrides |-> [timing_window |-> 60, visual_clutter |-> 30,
                     audio_layering |-> 40, screen_shake |-> 0,
                     failure_penalty |-> 0, platform_rhythm |-> 50]],
   focused |->
     [id |-> "focused", name |-> "Focused Flow",
      overrides |-> [visual_clutter |-> 20, audio_layering |-> 30,
                     screen_shake |-> 0, route_strictness |-> 20,
                     safe_route_visibility |-> 100]],
   challenge |->
     [id |-> "challenge", name |-> "Sharp Edge",
      overrides |-> [timing_window |-> 25, platform_rhythm |-> 90,
                     coyote_time |-> 8, failure_penalty |-> 30]],
   low_motion |->
     [id |-> "low_motion", name |-> "Still Air",
      overrides |-> [screen_shake |-> 0, visual_clutter |-> 30,
                     platform_rhythm |-> 50]]]

\* EventType.DEFAULTS_CHANGED
DEFAULTS_CHANGED == "defaults_changed"

\* the card PresetMoment.begin shows for one Default
Card(d) ==
  [key |-> d.key, label |-> d.label, is_rewritten |-> d.is_rewritten,
   current_value |-> d.current_value, rigid_value |-> d.rigid_value,
   rewritten_value |-> d.rewritten_value]

\* PresetMoment.begin: the categories and the progress of the returned dict
begin(reg) ==
  [categories |->
     [c \in {DefaultCategory[i] : i \in 1..Len(DefaultCategory)} |->
        LET ds == by_category(reg, c)
        IN  [i \in 1..Len(ds) |-> Card(ds[i])]],
   rewrite_progress |-> progress(reg)]

\* compose that also writes the preset's values into the registry
compose_applies(reg, bus, recv, name, values, player_note) ==
  LET preset == [name |-> name, values |-> values,
                 player_note |-> player_note]
      applied == [k \in DOMAIN reg |->
                    IF k \in DOMAIN values
                      THEN [reg[k] EXCEPT !.current_value = values[k]]
                      ELSE reg[k]]
      e == emit(bus, recv,
                [type |-> DEFAULTS_CHANGED,
                 data |-> [preset_name |-> name, values |-> values],
                 source |-> "preset_moment"],
                applied)
  IN  [composed_preset |-> Some(preset), reg |-> applied, bus |-> e.bus,
       recv |-> e.recv, raised |-> e.raised]

\* PresetMoment.compose: the composed preset, registry, bus and
\* events_received afterwards, and whether the call ended in an exception
compose(reg, bus, recv, name, values, player_note) ==
  LET preset == [name |-> name, values |-> values,
                 player_note |-> player_note]
      e == emit(bus, recv,
                [type |-> DEFAULTS_CHANGED,
                 data |-> [preset_name |-> name, values |-> values],
                 source |-> "preset_moment"],
                reg)
  IN  [composed_preset |-> Some(preset), reg |-> reg, bus |-> e.bus,
       recv |-> e.recv, raised |-> e.raised]

\* values.get(key, fallback)
ValueOr(values, key, fallback) ==
  IF key \in DOMAIN values THEN values[key] ELSE fallback

\* PresetMoment.get_npc_reactions: character and emotion of each reaction
get_npc_reactions(composed, reg) ==
  IF composed = None THEN << >>
  ELSE
    LET values  == composed[1].values
        consent == ValueOr(values, "consent_gates", 0)
        failure == ValueOr(values, "failure_penalty", 100)
        clutter == ValueOr(values, "visual_clutter", 100)
        route   == ValueOr(values, "safe_route_visibility", 0)
        timing  == ValueOr(values, "timing_window", 20)
        comm    == ValueOr(values, "communication_rigidity", 100)
        p       == progress(reg)
        dazie   == IF consent >= 80 THEN "grateful"
                   ELSE IF failure <= 30 THEN "reflective" ELSE "curious"
        june    == IF clutter <= 40 THEN "relieved"
                   ELSE IF route >= 80 THEN "grateful" ELSE "curious"
    IN  << [character_id |-> "dazie", emotion |-> dazie],
           [character_id |-> "june", emotion |-> june],
           [character_id |-> "winton", emotion |-> "measured",
            returning |-> (p.num * 10 >= p.den * 7)] >>
        \o (IF timing >= 40
              THEN << [character_id |-> "ambient_npc_1",
                       emotion |-> "relieved"] >>
              ELSE << >>)
        \o (IF comm <= 30
              THEN << [character_id |-> "ambient_npc_2",
                       emotion |-> "joyful"] >>
              ELSE << >>)

\* ------------------------------------------------ what refers to the keys
\* narrative.chapters_data.CHAPTERS: defaults_to_rewrite of chapters 1..12
CHAPTERS ==
  << <<"timing_window", "coyote_time">>,
     <<"visual_clutter", "audio_layering">>,
     <<"communication_rigidity">>,
     <<"platform_rhythm">>,
     <<"consent_gates", "opt_out_available">>,
     <<"retry_cost">>,
     <<"safe_route_visibility">>,
     <<"route_strictness">>,
     <<"screen_shake">>,
     <<"social_script_penalty">>,
     <<"failure_penalty">>,
     <<"jump_buffer">> >>

\* world.districts.DISTRICTS: defaults_present of each district
DISTRICTS ==
  [windgap_academy   |-> <<"timing_window", "coyote_time", "jump_buffer",
                           "communication_rigidity">>,
   veil_market       |-> <<"visual_clutter", "audio_layering",
                           "social_script_penalty">>,
   sandstone_quarter |-> <<"route_strictness", "safe_route_visibility",
                           "failure_penalty">>,
   umbel_gardens     |-> <<"platform_rhythm", "consent_gates",
                           "opt_out_available">>,
   smoke_margin      |-> <<"retry_cost", "screen_shake">>,
   reliquary_edge    |-> << >>]

\* the elements of a sequence
Range(s) == {s[i] : i \in 1..Len(s)}

\* every key a chapter lists in defaults_to_rewrite
ChapterKeys == UNION {Range(CHAPTERS[n]) : n \in 1..Len(CHAPTERS)}

\* every key a built-in preset overrides
PresetKeys == UNION {DOMAIN PRESETS[p].overrides : p \in DOMAIN PRESETS}

\* every key a district lists in defaults_present
DistrictKeys == UNION {Range(DISTRICTS[d]) : d \in DOMAIN DISTRICTS}

\* ------------------------------------------- game_entities: the Translator
\* TranslatorAbilities.READ_ASSUMPTIONS
READ_ASSUMPTIONS == "read_hidden_assumptions"

\* TranslatorAbilities.REWRITE_ENVIRONMENT
REWRITE_ENVIRONMENT == "rewrite_environment"

\* game_config.REWRITE_ENERGY_COST
REWRITE_ENERGY_COST == 10

\* game_config.REWRITE_COOLDOWN, in seconds
REWRITE_COOLDOWN == 2

\* translation energy regenerated per second by Translator.update
TRANSLATION_REGEN == 5

\* HiddenAssumption.__init__ with is_visible left at its default
HiddenAssumption_init == [is_visible |-> FALSE, is_rewritten |-> FALSE]

\* Translator.__init__: the abilities, the translation energy, the rewrite
\* cooldown and the progress lists.  The movement, combat-verb and
\* windprint-energy fields are left out: no call modelled here changes them
\* (update finds them at their rest values).
Translator_init ==
  [abilities |->
     [read_hidden_assumptions |-> TRUE, perceive_windprints |-> TRUE,
      rewrite_environment |-> FALSE, decode_corrupted_signals |-> FALSE,
      create_alternative_pathways |-> FALSE, cushion_mode |-> FALSE,
      guard_mode |-> FALSE],
   translation_energy |-> 100,
   max_translation_energy |-> 100,
   rewrite_cooldown |-> 0,
   assumptions_read |-> << >>,
   environments_rewritten |-> << >>]

\* x is an element of the list s
InList(s, x) == \E i \in 1..Len(s) : s[i] = x

\* the smaller and the larger of two numbers
Min(a, b) == IF a <= b THEN a ELSE b

Max(a, b) == IF a >= b THEN a ELSE b

\* Translator.unlock_ability
unlock_ability(t, ability) ==
  IF ability \in DOMAIN t.abilities
    THEN [t EXCEPT !.abilities[ability] = TRUE]
    ELSE t

\* HiddenAssumption.reveal
reveal(h) == [h EXCEPT !.is_visible = TRUE]

\* Translator.read_assumption(assumption a): the Translator and the
\* assumptions afterwards, and the returned bool
read_assumption(t, as, a) ==
  IF ~t.abilities[READ_ASSUMPTIONS]
    THEN [translator |-> t, assumptions |-> as, ret |-> FALSE]
    ELSE [translator |->
            IF InList(t.assumptions_read, a) THEN t
            ELSE [t EXCEPT !.assumptions_read = Append(@, a)],
          assumptions |-> [as EXCEPT ![a] = reveal(@)],
          ret |-> TRUE]

\* rewrite_environment without the visibility test
rewrite_environment_unseen(t, as, a) ==
  IF ~t.abilities[REWRITE_ENVIRONMENT]
    THEN [translator |-> t, assumptions |-> as, ret |-> FALSE]
  ELSE IF t.translation_energy < REWRITE_ENERGY_COST
    THEN [translator |-> t, assumptions |-> as, ret |-> FALSE]
  ELSE IF t.rewrite_cooldown > 0
    THEN [translator |-> t, assumptions |-> as, ret |-> FALSE]
  ELSE [translator |->
          [t EXCEPT !.translation_energy = @ - REWRITE_ENERGY_COST,
                    !.rewrite_cooldown = REWRITE_COOLDOWN,
                    !.environments_rewritten =
                       IF InList(@, a) THEN @ ELSE Append(@, a)],
        assumptions |-> [as EXCEPT ![a].is_rewritten = TRUE],
        ret |-> TRUE]

\* Translator.rewrite_environment(assumption a)
rewrite_environment(t, as, a) ==
  IF ~t.abilities[REWRITE_ENVIRONMENT]
    THEN [translator |-> t, assumptions |-> as, ret |-> FALSE]
  ELSE IF t.translation_energy < REWRITE_ENERGY_COST
    THEN [translator |-> t, assumptions |-> as, ret |-> FALSE]
  ELSE IF t.rewrite_cooldown > 0
    THEN [translator |-> t, assumptions |-> as, ret |-> FALSE]
  ELSE IF ~as[a].is_visible
    THEN [translator |-> t, assumptions |-> as, ret |-> FALSE]
  ELSE [translator |->
          [t EXCEPT !.translation_energy = @ - REWRITE_ENERGY_COST,
                    !.rewrite_cooldown = REWRITE_COOLDOWN,
                    !.environments_rewritten =
                       IF InList(@, a) THEN @ ELSE Append(@, a)],
        assumptions |-> [as EXCEPT ![a].is_rewritten = TRUE],
        ret |-> TRUE]

\* Translator.update(delta_time), delta_time in whole seconds
Translator_update(t, delta_time) ==
  [t EXCEPT
     !.rewrite_cooldown = IF @ > 0 THEN Max(0, @ - delta_time) ELSE @,
     !.translation_energy =
        IF @ < t.max_translation_energy
          THEN Min(t.max_translation_energy,
                   @ + delta_time * TRANSLATION_REGEN)
          ELSE @]

\* the assumptions of the world
AssumptionIds == {"a1", "a2"}

\* ----------------------------------------- windprint_rig: the WindprintRig
\* game_config.WINDPRINT_ENERGY_MAX
WINDPRINT_ENERGY_MAX == 100

\* game_config.WINDPRINT_ENERGY_REGEN, per second
WINDPRINT_ENERGY_REGEN == 5

\* game_config.WINDPRINT_MODE_SWITCH_COST
WINDPRINT_MODE_SWITCH_COST == 5

\* WindprintRig.__init__: current_mode, the is_active flags of its
\* CushionMode and GuardMode, the energy, and the two tallies of
\* activations (mode_activations, and mode_preferences of the
\* translator's windprint_record)
WindprintRig_init ==
  [current_mode |-> None,
   cushion |-> [is_active |-> FALSE],
   guard |-> [is_active |-> FALSE],
   energy |-> WINDPRINT_ENERGY_MAX,
   max_energy |-> WINDPRINT_ENERGY_MAX,
   energy_regen_rate |-> WINDPRINT_ENERGY_REGEN,
   mode_activations |-> [cushion |-> 0, guard |-> 0],
   mode_preferences |-> [cushion |-> 0, guard |-> 0]]

\* WindprintRig.can_switch_mode
can_switch_mode(w) == w.energy >= WINDPRINT_MODE_SWITCH_COST

\* activate_cushion that leaves Guard switched on
WindprintRig_activate_cushion_both(w) ==
  IF w.current_mode = Some(CUSHION) THEN [rig |-> w, ret |-> TRUE]
  ELSE IF ~can_switch_mode(w) THEN [rig |-> w, ret |-> FALSE]
  ELSE [rig |-> [w EXCEPT !.current_mode = Some(CUSHION),
                          !.cushion.is_active = TRUE,
                          !.energy = @ - WINDPRINT_MODE_SWITCH_COST,
                          !.mode_activations.cushion = @ + 1,
                          !.mode_preferences.cushion = @ + 1],
        ret |-> TRUE]

\* WindprintRig.activate_cushion: the rig afterwards and the returned bool
WindprintRig_activate_cushion(w) ==
  IF w.current_mode = Some(CUSHION) THEN [rig |-> w, ret |-> TRUE]
  ELSE IF ~can_switch_mode(w) THEN [rig |-> w, ret |-> FALSE]
  ELSE [rig |-> [w EXCEPT !.guard.is_active =
                             IF w.current_mode = Some(GUARD) THEN FALSE ELSE @,
                          !.current_mode = Some(CUSHION),
                          !.cushion.is_active = TRUE,
                          !.energy = @ - WINDPRINT_MODE_SWITCH_COST,
                          !.mode_activations.cushion = @ + 1,
                          !.mode_preferences.cushion = @ + 1],
        ret |-> TRUE]

\* WindprintRig.activate_guard
WindprintRig_activate_guard(w) ==
  IF w.current_mode = Some(GUARD) THEN [rig |-> w, ret |-> TRUE]
  ELSE IF ~can_switch_mode(w) THEN [rig |-> w, ret |-> FALSE]
  ELSE [rig |-> [w EXCEPT !.cushion.is_active =
                             IF w.current_mode = Some(CUSHION) THEN FALSE ELSE @,
                          !.current_mode = Some(GUARD),
                          !.guard.is_active = TRUE,
                          !.energy = @ - WINDPRINT_MODE_SWITCH_COST,
                          !.mode_activations.guard = @ + 1,
                          !.mode_preferences.guard = @ + 1],
        ret |-> TRUE]

\* WindprintRig.deactivate
WindprintRig_deactivate(w) ==
  [w EXCEPT !.cushion.is_active =
               IF w.current_mode = Some(CUSHION) THEN FALSE ELSE @,
            !.guard.is_active =
               IF w.current_mode = Some(GUARD) THEN FALSE ELSE @,
            !.current_mode = None]

\* WindprintRig.toggle_mode: the rig afterwards and the returned mode name
WindprintRig_toggle_mode(w) ==
  IF w.current_mode = Some(CUSHION)
    THEN [rig |-> WindprintRig_activate_guard(w).rig, ret |-> GUARD]
    ELSE [rig |-> WindprintRig_activate_cushion(w).rig, ret |-> CUSHION]

\* WindprintRig.update(delta_time), delta_time in whole seconds; the
\* modes' own update keeps is_active
WindprintRig_update(w, delta_time) ==
  [w EXCEPT !.energy =
       IF @ < w.max_energy
         THEN Min(w.max_energy, @ + w.energy_regen_rate * delta_time)
         ELSE @]

\* ------------------------------------------ chapters: the ChapterManager
\* game_config.TOTAL_CHAPTERS
TOTAL_CHAPTERS == 12

\* class ChapterState
LOCKED == "LOCKED"

AVAILABLE == "AVAILABLE"

IN_PROGRESS == "IN_PROGRESS"

COMPLETED == "COMPLETED"

\* ChapterManager.__init__ with Chapter.__init__ for chapters 1..12: the
\* state of each chapter and current_chapter_id; and the progress the
\* manager writes elsewhere: world.current_chapter, world.restored_rules
\* (a chapter's rule stands for the chapter: the 12 rules are distinct),
\* the translator's windprint_record.civic_rules_restored,
\* completed_chapters and current_chapter
ChapterManager_init ==
  [chapters |-> [i \in 1..TOTAL_CHAPTERS |->
                   IF i > 1 THEN LOCKED ELSE AVAILABLE],
   current_chapter_id |-> 1,
   world_current_chapter |-> 1,
   restored_rules |-> {},
   civic_rules_restored |-> << >>,
   completed_chapters |-> {},
   translator_current_chapter |-> 1]

\* the unlocks of _unlock_chapter_abilities, by chapter
ChapterUnlocks(chapter_id) ==
  CASE chapter_id = 1 -> <<"cushion_mode", "guard_mode", "pulse">>
    [] chapter_id = 2 -> <<"radiant_hold">>
    [] chapter_id = 3 -> <<"thread_lash">>
    [] chapter_id = 5 -> <<"edge_claim">>
    [] chapter_id = 6 -> <<"retune", "create_alternative_pathways">>
    [] OTHER -> << >>

RECURSIVE UnlockAll(_, _, _)
\* _unlock_chapter_abilities: no unlock is an attribute name of
\* CombatVerbs (those are upper case), so each goes to unlock_ability
UnlockAll(t, unlocks, i) ==
  IF i > Len(unlocks) THEN t
  ELSE UnlockAll(unlock_ability(t, unlocks[i]), unlocks, i + 1)

\* start_chapter that never looks at the previous chapter
start_chapter_ungated(m, t, chapter_id) ==
  IF chapter_id \notin DOMAIN m.chapters
    THEN [manager |-> m, translator |-> t, ret |-> FALSE]
  ELSE [manager |-> [m EXCEPT !.chapters[chapter_id] = IN_PROGRESS,
                              !.current_chapter_id = chapter_id,
                              !.world_current_chapter = chapter_id],
        translator |-> UnlockAll(t, ChapterUnlocks(chapter_id), 1),
        ret |-> TRUE]

\* ChapterManager.start_chapter: the manager and the translator
\* afterwards, and the returned bool
start_chapter(m, t, chapter_id) ==
  IF chapter_id \notin DOMAIN m.chapters
    THEN [manager |-> m, translator |-> t, ret |-> FALSE]
  ELSE IF /\ m.chapters[chapter_id] = LOCKED
          /\ chapter_id > 1
          /\ m.chapters[chapter_id - 1] # COMPLETED
    THEN [manager |-> m, translator |-> t, ret |-> FALSE]
  ELSE [manager |-> [m EXCEPT !.chapters[chapter_id] = IN_PROGRESS,
                              !.current_chapter_id = chapter_id,
                              !.world_current_chapter = chapter_id],
        translator |-> UnlockAll(t, ChapterUnlocks(chapter_id), 1),
        ret |-> TRUE]

\* ChapterManager.complete_chapter: chapter_id 0 (or None) means the
\* current chapter
complete_chapter(m, chapter_id) ==
  LET id == IF chapter_id = 0 THEN m.current_chapter_id ELSE chapter_id
  IN  IF id \notin DOMAIN m.chapters \/ m.chapters[id] # IN_PROGRESS
        THEN [manager |-> m, ret |-> FALSE]
        ELSE [manager |->
                [m EXCEPT
                   !.chapters = [c \in DOMAIN m.chapters |->
                                   IF c = id THEN COMPLETED
                                   ELSE IF c = id + 1 /\ id < TOTAL_CHAPTERS
                                     THEN AVAILABLE
                                     ELSE m.chapters[c]],
                   !.restored_rules = @ \cup {id},
                   !.civic_rules_restored = Append(@, id),
                   !.completed_chapters = @ \cup {id},
                   !.translator_current_chapter =
                      IF id < TOTAL_CHAPTERS THEN id + 1 ELSE @],
              ret |-> TRUE]

\* ------------------------------------------ combat_system: CombatSystem
\* game_config.COMBAT_VERB_STATS: energy cost, cooldown in tenths of a
\* second, effect radius in world units
COMBAT_VERB_STATS ==
  [pulse        |-> [energy_cost |-> 10, cooldown |-> 10, effect_radius |-> 5],
   thread_lash  |-> [energy_cost |-> 15, cooldown |-> 15, effect_radius |-> 8],
   radiant_hold |-> [energy_cost |-> 20, cooldown |-> 20, effect_radius |-> 3],
   edge_claim   |-> [energy_cost |-> 15, cooldown |-> 15, effect_radius |-> 4],
   retune       |-> [energy_cost |-> 25, cooldown |-> 30, effect_radius |-> 6]]

\* the pattern classes: EchoForm, Distortion, NoiseBeast
ECHO_FORM == "echo_form"

DISTORTION == "distortion"

NOISE_BEAST == "noise_beast"

\* AntagonisticPattern.__init__ at the given distance from the encounter's
\* position; resolution_progress in hundredths
Pattern_init(kind, distance) ==
  [kind |-> kind, distance |-> distance,
   is_resolved |-> FALSE, resolution_progress |-> 0]

\* what receive_verb of each pattern class adds, in hundredths
VerbProgress(kind, verb) ==
  CASE kind = ECHO_FORM /\ verb = "thread_lash" -> 50
    [] kind = ECHO_FORM /\ verb = "pulse" -> 25
    [] kind = ECHO_FORM /\ verb = "radiant_hold" -> 10
    [] kind = DISTORTION /\ verb = "pulse" -> 50
    [] kind = DISTORTION /\ verb = "edge_claim" -> 30
    [] kind = DISTORTION /\ verb = "thread_lash" -> 15
    [] kind = NOISE_BEAST /\ verb = "retune" -> 40
    [] kind = NOISE_BEAST /\ verb = "radiant_hold" -> 20
    [] kind = NOISE_BEAST /\ verb = "edge_claim" -> 10
    [] OTHER -> 0

\* EchoForm / Distortion / NoiseBeast.receive_verb
receive_verb(p, verb) ==
  LET after == p.resolution_progress + VerbProgress(p.kind, verb)
  IN  [p EXCEPT !.resolution_progress = after,
                !.is_resolved = @ \/ after >= 100]

\* create_echo_form_encounter / create_distortion_encounter with n
\* scripts or rules, at the translator's position: pattern i stands
\* 3 * i units away; resolution_threshold in hundredths
create_encounter(kind, n) ==
  [patterns |-> [i \in 1..n |-> Pattern_init(kind, 3 * (i - 1))],
   is_resolved |-> FALSE,
   resolution_threshold |-> 100]

\* CombatEncounter.get_resolution_progress, in hundredths
get_resolution_progress(e) ==
  IF Len(e.patterns) = 0 THEN 100
  ELSE (Cardinality({j \in DOMAIN e.patterns : e.patterns[j].is_resolved})
          * 100) \div Len(e.patterns)

\* CombatEncounter.check_resolution: the encounter afterwards; what it
\* returns is the encounter's is_resolved
check_resolution(e) ==
  IF get_resolution_progress(e) >= e.resolution_threshold
    THEN [e EXCEPT !.is_resolved = TRUE]
    ELSE e

\* CombatSystem.__init__ with Translator.__init__: the verb state of the
\* translator, the encounters and the statistics
CombatSystem_init ==
  [combat_verbs |-> [v \in DOMAIN COMBAT_VERB_STATS |-> FALSE],
   verb_cooldowns |-> << >>,
   windprint_energy |-> WINDPRINT_ENERGY_MAX,
   verb_usage |-> [v \in DOMAIN COMBAT_VERB_STATS |-> 0],
   active_encounters |-> << >>,
   patterns_resolved |-> 0,
   encounters_completed |-> 0,
   verbs_used |-> [v \in DOMAIN COMBAT_VERB_STATS |-> 0]]

\* CombatSystem.unlock_verb -> Translator.unlock_verb
unlock_verb(c, verb) ==
  IF verb \in DOMAIN c.combat_verbs
    THEN [c EXCEPT !.combat_verbs[verb] = TRUE,
                   !.verb_cooldowns = (verb :> 0) @@ @]
    ELSE c

\* Translator.can_use_verb
can_use_verb(c, verb) ==
  /\ verb \in DOMAIN c.combat_verbs
  /\ c.combat_verbs[verb]
  /\ ~(verb \in DOMAIN c.verb_cooldowns /\ c.verb_cooldowns[verb] > 0)
  /\ c.windprint_energy >= COMBAT_VERB_STATS[verb].energy_cost

\* the pattern is one of the targets use_verb gathers and is within the
\* verb's effect radius of the translator's position
Affected(e, p, verb) ==
  /\ ~e.is_resolved
  /\ ~p.is_resolved
  /\ p.distance <= COMBAT_VERB_STATS[verb].effect_radius

\* CombatSystem.start_encounter
start_encounter(c, e) ==
  [c EXCEPT !.active_encounters = Append(@, e)]

\* CombatSystem.use_verb(verb_id) with no target position, through
\* CombatVerb.execute and Translator.use_verb: the system afterwards and
\* the result's success
use_verb(c, verb_id) ==
  IF verb_id \notin DOMAIN c.verbs_used \/ ~can_use_verb(c, verb_id)
    THEN [combat |-> c, success |-> FALSE]
  ELSE
    LET es == c.active_encounters
        received ==
          [i \in DOMAIN es |->
             [es[i] EXCEPT !.patterns =
                [j \in DOMAIN es[i].patterns |->
                   IF Affected(es[i], es[i].patterns[j], verb_id)
                     THEN receive_verb(es[i].patterns[j], verb_id)
                     ELSE es[i].patterns[j]]]]
        resolved_now ==
          {ij \in {<<i, j>> : i \in DOMAIN es, j \in 1..MaxPatterns} :
             /\ ij[2] \in DOMAIN es[ij[1]].patterns
             /\ Affected(es[ij[1]], es[ij[1]].patterns[ij[2]], verb_id)
             /\ received[ij[1]].patterns[ij[2]].is_resolved}
        checked == [i \in DOMAIN es |-> check_resolution(received[i])]
    IN  [combat |->
           [c EXCEPT
              !.windprint_energy = @ - COMBAT_VERB_STATS[verb_id].energy_cost,
              !.verb_cooldowns =
                 (verb_id :> COMBAT_VERB_STATS[verb_id].cooldown) @@ @,
              !.verb_usage[verb_id] = @ + 1,
              !.verbs_used[verb_id] = @ + 1,
              !.active_encounters = checked,
              !.patterns_resolved = @ + Cardinality(resolved_now),
              !.encounters_completed =
                 @ + Cardinality({i \in DOMAIN es : checked[i].is_resolved})],
         success |-> TRUE]

\* the combat part of Translator.update(delta_time), delta_time in whole
\* seconds: the cooldowns run down and the windprint energy comes back
combat_update(c, delta_time) ==
  [c EXCEPT
     !.verb_cooldowns =
        [v \in DOMAIN @ |-> IF @[v] > 0 THEN Max(0, @[v] - 10 * delta_time)
                            ELSE @[v]],
     !.windprint_energy =
        IF @ < WINDPRINT_ENERGY_MAX
          THEN Min(WINDPRINT_ENERGY_MAX,
                   @ + delta_time * WINDPRINT_ENERGY_REGEN)
          ELSE @]

\* ------------------------------------------------------------ the inputs
\* keys the player and the systems pass in: two registered, one unknown
InputKeys == {"timing_window", "coyote_time", "nonexistent_key"}

\* via_mode tags
Modes == {"cushion", "guard"}

\* event types handlers subscribe to
Types == {DEFAULT_READ, DEFAULT_REWRITTEN}

\* identities of the handler callables
Handlers == {"h1", "h2"}

\* ---------------------------------------------------------------- state
VARIABLES
  registry,         \* DefaultsRegistry._defaults
  bus,              \* EventBus._listeners and EventBus._history
  events_received,  \* the list the subscribed handlers append to
  last,             \* the latest call: operation, arguments, and the
                    \* returned text (reads) or returned bool (rewrites),
                    \* or raised when the call ended in an exception
  calls,            \* the registry, verb and clear calls so far, while
                    \* at most MaxTrace of them
  first_read,       \* per key, the text its first read returned
  ncalls,           \* how many calls the session has made
  rig,              \* WindprintRigSystem.state
  composed_preset,  \* PresetMoment.composed_preset
  snapshot,         \* the list a caller got from bus.history, if any
  twin,             \* a second run of the same calls on a registry and
                    \* bus of its own: its registry, bus and latest call
  translator,       \* the Translator of game_entities
  assumptions,      \* the HiddenAssumption objects of the world
  wrig,             \* the WindprintRig of windprint_rig
  manager,          \* the ChapterManager of chapters, with what it
                    \* writes into the GameWorld and the Translator
  inflight,         \* the emit whose handler loop is running, if any:
                    \* its event, the list it walks and its position
  combat            \* the CombatSystem of combat_system, with its
                    \* encounters and the verb state of its Translator

\* the state of the game_entities / windprint_rig / chapters /
\* combat_system objects
legacy ==
  <<translator, assumptions, wrig, manager, inflight, combat>>

vars == <<registry, bus, events_received, last, calls, first_read, ncalls,
          rig, composed_preset, snapshot, twin, legacy>>

\* the state outside the registry and the bus
aux == <<rig, composed_preset, snapshot, twin, legacy>>

\* the call log extended by one call, or given up once it is too long
Logged(c) ==
  IF calls.complete /\ Len(calls.log) < MaxTrace
    THEN [log |-> Append(calls.log, c), complete |-> TRUE]
    ELSE [log |-> << >>, complete |-> FALSE]

\* first_read after a read of key returned ret
NoteRead(key, ret) ==
  IF key \in DOMAIN first_read /\ first_read[key] = None
    THEN [first_read EXCEPT ![key] = ret]
    ELSE first_read

\* one more call, while the session is within its bound
Tick ==
  /\ ncalls < MaxCalls
  /\ ncalls' = ncalls + 1

Init ==
  /\ registry = Registry_init
  /\ bus = Bus_init
  /\ events_received = << >>
  /\ last = [op |-> "init"]
  /\ calls = [log |-> << >>, complete |-> TRUE]
  /\ first_read = [k \in DOMAIN Registry_init |-> None]
  /\ ncalls = 0
  /\ rig = Rig_init
  /\ composed_preset = None
  /\ snapshot = None
  /\ twin = [reg |-> Registry_init, bus |-> Bus_init,
             last |-> [op |-> "init"]]
  /\ translator = Translator_init
  /\ assumptions = [a \in AssumptionIds |-> HiddenAssumption_init]
  /\ wrig = WindprintRig_init
  /\ manager = ChapterManager_init
  /\ inflight = None
  /\ combat = CombatSystem_init

\* registry.read(key)
Read(key) ==
  LET r == Registry_read(registry, key)
  IN  /\ Tick
      /\ registry' = r.reg
      /\ last' = [op |-> "read", key |-> key, text |-> r.ret]
      /\ calls' = Logged([op |-> "read", key |-> key])
      /\ first_read' = NoteRead(key, r.ret)
      /\ UNCHANGED <<bus, events_received, aux>>

\* registry.rewrite(key)
Rewrite(key) ==
  LET r == Registry_rewrite(registry, key)
  IN  /\ Tick
      /\ registry' = r.reg
      /\ last' = [op |-> "rewrite", key |-> key, ok |-> r.ret]
      /\ calls' = Logged([op |-> "rewrite", key |-> key])
      /\ UNCHANGED <<bus, events_received, first_read, aux>>

\* verbs.read_default(key)
ReadDefault(key) ==
  LET r == read_default(registry, bus, events_received, key)
  IN  /\ Tick
      /\ registry' = r.reg
      /\ bus' = r.bus
      /\ events_received' = r.recv
      /\ last' = IF r.raised
                    THEN [op |-> "read_default", key |-> key, raised |-> TRUE]
                    ELSE [op |-> "read_default", key |-> key, text |-> r.ret]
      /\ calls' = Logged([op |-> "read_default", key |-> key])
      /\ first_read' = NoteRead(key, r.ret)
      /\ UNCHANGED aux

\* verbs.rewrite_default(key, via_mode)
RewriteDefault(key, via_mode) ==
  LET r == rewrite_default(registry, bus, events_received, key, via_mode)
  IN  /\ Tick
      /\ registry' = r.reg
      /\ bus' = r.bus
      /\ events_received' = r.recv
      /\ last' = IF r.raised
                    THEN [op |-> "rewrite_default", key |-> key,
                          mode |-> via_mode, raised |-> TRUE]
                    ELSE [op |-> "rewrite_default", key |-> key,
                          mode |-> via_mode, ok |-> r.ret]
      /\ calls' = Logged([op |-> "rewrite_default", key |-> key,
                          mode |-> via_mode])
      /\ UNCHANGED <<first_read, aux>>

\* bus.subscribe(event_type, handler)
Subscribe(t, h) ==
  /\ Tick
  /\ Len(ListenersOf(bus, t)) < MaxListeners
  /\ bus' = subscribe(bus, t, h)
  /\ last' = [op |-> "subscribe", type |-> t, handler |-> h]
  /\ UNCHANGED <<registry, events_received, calls, first_read, aux>>

\* bus.unsubscribe(event_type, handler)
Unsubscribe(t, h) ==
  /\ Tick
  /\ bus' = unsubscribe(bus, t, h)
  /\ last' = [op |-> "unsubscribe", type |-> t, handler |-> h]
  /\ UNCHANGED <<registry, events_received, calls, first_read, aux>>

\* bus.clear_history()
ClearHistory ==
  /\ Tick
  /\ bus' = clear_history(bus)
  /\ last' = [op |-> "clear_history"]
  /\ calls' = Logged([op |-> "clear_history"])
  /\ UNCHANGED <<registry, events_received, first_read, aux>>

Next ==
  \/ \E key \in InputKeys : Read(key)
  \/ \E key \in InputKeys : Rewrite(key)
  \/ \E key \in InputKeys : ReadDefault(key)
  \/ \E key \in InputKeys, m \in Modes : RewriteDefault(key, m)
  \/ \E t \in Types, h \in Handlers : Subscribe(t, h)
  \/ \E t \in Types, h \in Handlers : Unsubscribe(t, h)
  \/ ClearHistory

Spec == Init /\ [][Next]_vars

\* the registry never leaves its shape
TypeOK ==
  /\ DOMAIN registry = {Catalog[i].key : i \in 1..Len(Catalog)}
  /\ \A k \in DOMAIN registry : registry[k].is_read \in BOOLEAN
  /\ ncalls \in 0..MaxCalls

\* ------------------------------------------- a session with PresetMoment
\* the built-in presets whose overrides the player composes
PresetNames == {"gentle", "challenge"}

\* PresetMoment.compose(name, values) with the overrides of a built-in
\* preset as the values
Compose(name) ==
  LET r == compose(registry, bus, events_received, PRESETS[name].name,
                   PRESETS[name].overrides, "")
  IN  /\ Tick
      /\ composed_preset' = r.composed_preset
      /\ registry' = r.reg
      /\ bus' = r.bus
      /\ events_received' = r.recv
      /\ last' = [op |-> "compose", name |-> name, raised |-> r.raised]
      /\ calls' = Logged([op |-> "compose", name |-> name])
      /\ UNCHANGED <<first_read, rig, snapshot, twin, legacy>>

\* ------------------------------------- a session with a raising handler
\* the key the verbs are called with
RaiseKeys == {"timing_window"}

\* event types handlers subscribe to, the preset moment's included
RaiseTypes == {DEFAULT_READ, DEFAULT_REWRITTEN, DEFAULTS_CHANGED}

\* a recording handler and a raising one
RaiseHandlers == {"h1"} \cup Raisers

NextRaise ==
  \/ \E key \in RaiseKeys : ReadDefault(key)
  \/ \E key \in RaiseKeys : RewriteDefault(key, CUSHION)
  \/ \E name \in PresetNames : Compose(name)
  \/ \E t \in RaiseTypes, h \in RaiseHandlers : Subscribe(t, h)
  \/ \E t \in RaiseTypes, h \in RaiseHandlers : Unsubscribe(t, h)

SpecRaise == Init /\ [][NextRaise]_vars

\* ------------------------------------------- a session that registers again
\* registry._register(Default(...)) with the fields of a catalog entry; the
\* method has no raise statement
Register(c) ==
  /\ Tick
  /\ registry' = Registry_register(registry, NewDefault(c))
  /\ last' = [op |-> "register", key |-> c.key, raised |-> FALSE]
  /\ calls' = Logged([op |-> "register", key |-> c.key])
  /\ UNCHANGED <<bus, events_received, first_read, aux>>

\* the catalog entries registered a second time
RegisterEntries == {c \in Range(Catalog) : c.key \in InputKeys}

NextRegister ==
  \/ \E key \in InputKeys : Read(key)
  \/ \E key \in InputKeys : Rewrite(key)
  \/ \E c \in RegisterEntries : Register(c)

SpecRegister == Init /\ [][NextRegister]_vars

\* ------------------------------------------------ a chapter playthrough
\* the chapters whose defaults_to_rewrite are not all rewritten yet
Unfinished(reg) ==
  {n \in 1..Len(CHAPTERS) :
     \E k \in Range(CHAPTERS[n]) : ~reg[k].is_rewritten}

\* the keys the player works on: those of the first unfinished chapter,
\* and those of the last chapter once every chapter is finished
KeysInPlay(reg) ==
  IF Unfinished(reg) = {}
    THEN Range(CHAPTERS[Len(CHAPTERS)])
    ELSE Range(CHAPTERS[CHOOSE n \in Unfinished(reg) :
                          \A m \in Unfinished(reg) : n <= m])

\* registry.read(key) on a key of the chapter in play
PlayRead(key) ==
  LET r == Registry_read(registry, key)
  IN  /\ key \in KeysInPlay(registry)
      /\ registry' = r.reg
      /\ last' = [op |-> "read", key |-> key, text |-> r.ret]
      /\ calls' = Logged([op |-> "read", key |-> key])
      /\ first_read' = NoteRead(key, r.ret)
      /\ UNCHANGED <<bus, events_received, ncalls, aux>>

\* registry.rewrite(key) on a key of the chapter in play
PlayRewrite(key) ==
  LET r == Registry_rewrite(registry, key)
  IN  /\ key \in KeysInPlay(registry)
      /\ registry' = r.reg
      /\ last' = [op |-> "rewrite", key |-> key, ok |-> r.ret]
      /\ calls' = Logged([op |-> "rewrite", key |-> key])
      /\ UNCHANGED <<bus, events_received, first_read, ncalls, aux>>

NextChapters ==
  \/ \E key \in ChapterKeys : PlayRead(key)
  \/ \E key \in ChapterKeys : PlayRewrite(key)

SpecChapters == Init /\ [][NextChapters]_vars

\* ------------------------------------- a session that looks at the history
\* snapshot = bus.history
TakeHistory ==
  /\ Tick
  /\ snapshot' = Some(history(bus))
  /\ last' = [op |-> "history"]
  /\ UNCHANGED <<registry, bus, events_received, calls, first_read,
                 rig, composed_preset, twin, legacy>>

\* snapshot.clear(): the caller empties the list it was given; a list that
\* is not the caller's own is the bus's
ClearSnapshot ==
  /\ Tick
  /\ snapshot # None
  /\ snapshot' = Some([snapshot[1] EXCEPT !.items = << >>])
  /\ bus' = IF snapshot[1].own THEN bus ELSE [bus EXCEPT !.history = << >>]
  /\ last' = [op |-> "snapshot.clear"]
  /\ UNCHANGED <<registry, events_received, calls, first_read,
                 rig, composed_preset, twin, legacy>>

\* the keys the verbs are called with: one registered, one unknown
HistoryKeys == {"timing_window", "nonexistent_key"}

\* the handler that subscribes
HistoryHandlers == {"h1"}

NextHistory ==
  \/ \E key \in HistoryKeys : ReadDefault(key)
  \/ \E key \in HistoryKeys : RewriteDefault(key, CUSHION)
  \/ \E t \in Types, h \in HistoryHandlers : Subscribe(t, h)
  \/ ClearHistory
  \/ TakeHistory
  \/ ClearSnapshot

SpecHistory == Init /\ [][NextHistory]_vars

\* --------------------------------------------- a session with consumers
\* a call that only asks: it leaves every object as it is
Asked(answer) ==
  /\ Tick
  /\ last' = answer
  /\ UNCHANGED <<registry, bus, events_received, calls, first_read, aux>>

\* registry.get(key)
Get(key) ==
  Asked([op |-> "get", key |-> key, value |-> Registry_get(registry, key)])

\* registry.list_readable()
ListReadable ==
  Asked([op |-> "list_readable", defaults |-> list_readable(registry)])

\* registry.list_rewritable()
ListRewritable ==
  Asked([op |-> "list_rewritable", defaults |-> list_rewritable(registry)])

\* registry.by_category(category)
ByCategory(category) ==
  Asked([op |-> "by_category", category |-> category,
         defaults |-> by_category(registry, category)])

\* registry.progress
Progress ==
  Asked([op |-> "progress", fraction |-> progress(registry)])

\* registry.all_rewritten()
AllRewritten ==
  Asked([op |-> "all_rewritten", all |-> all_rewritten(registry)])

\* verbs.scan_area(district.defaults_present)
ScanArea(district) ==
  Asked([op |-> "scan_area", district |-> district,
         summaries |-> scan_area(registry, DISTRICTS[district])])

\* get_sensory_profile(registry)
GetSensoryProfile ==
  Asked([op |-> "get_sensory_profile",
         profile |-> get_sensory_profile(registry)])

\* rig.get_timing_multiplier()
GetTimingMultiplier ==
  Asked([op |-> "get_timing_multiplier",
         multiplier |-> get_timing_multiplier(rig, registry)])

\* rig.get_route_flexibility()
GetRouteFlexibility ==
  Asked([op |-> "get_route_flexibility",
         flexibility |-> get_route_flexibility(rig, registry)])

\* moment.begin()
Begin ==
  Asked([op |-> "begin", terminal |-> begin(registry)])

\* moment.get_npc_reactions()
GetNpcReactions ==
  Asked([op |-> "get_npc_reactions",
         reactions |-> get_npc_reactions(composed_preset, registry)])

\* rig.activate_cushion()
ActivateCushion ==
  LET r == activate_cushion(rig, registry)
  IN  /\ Tick
      /\ rig' = r.rig
      /\ registry' = r.reg
      /\ last' = [op |-> "activate_cushion", success |-> r.success]
      /\ UNCHANGED <<bus, events_received, calls, first_read,
                     composed_preset, snapshot, twin, legacy>>

\* rig.activate_guard()
ActivateGuard ==
  LET r == activate_guard(rig, registry)
  IN  /\ Tick
      /\ rig' = r.rig
      /\ registry' = r.reg
      /\ last' = [op |-> "activate_guard", success |-> r.success]
      /\ UNCHANGED <<bus, events_received, calls, first_read,
                     composed_preset, snapshot, twin, legacy>>

\* the keys read, rewritten and asked for: two the adapters use, one unknown
ConsumerKeys == {"timing_window", "route_strictness", "nonexistent_key"}

\* the categories asked for
ConsumerCategories == {"TIMING", "ROUTING"}

\* the districts scanned
ConsumerDistricts == {"windgap_academy", "sandstone_quarter"}

NextConsumers ==
  \/ \E key \in ConsumerKeys : Read(key)
  \/ \E key \in ConsumerKeys : Rewrite(key)
  \/ \E key \in ConsumerKeys : Get(key)
  \/ ListReadable
  \/ ListRewritable
  \/ \E category \in ConsumerCategories : ByCategory(category)
  \/ Progress
  \/ AllRewritten
  \/ \E district \in ConsumerDistricts : ScanArea(district)
  \/ GetSensoryProfile
  \/ GetTimingMultiplier
  \/ GetRouteFlexibility
  \/ ActivateCushion
  \/ ActivateGuard
  \/ Begin
  \/ \E name \in PresetNames : Compose(name)
  \/ GetNpcReactions
  \/ \E h \in Handlers : Subscribe(DEFAULTS_CHANGED, h)

SpecConsumers == Init /\ [][NextConsumers]_vars

\* ------------------------------------- two runs that differ in via_mode
\* verbs.read_default(key) in both runs
TwinReadDefault(key) ==
  LET a == read_default(registry, bus, events_received, key)
      b == read_default(twin.reg, twin.bus, << >>, key)
  IN  /\ Tick
      /\ registry' = a.reg
      /\ bus' = a.bus
      /\ events_received' = a.recv
      /\ last' = [op |-> "read_default", key |-> key, text |-> a.ret]
      /\ twin' = [reg |-> b.reg, bus |-> b.bus,
                  last |-> [op |-> "read_default", key |-> key,
                            text |-> b.ret]]
      /\ calls' = Logged([op |-> "read_default", key |-> key])
      /\ first_read' = NoteRead(key, a.ret)
      /\ UNCHANGED <<rig, composed_preset, snapshot, legacy>>

\* verbs.rewrite_default(key, via_mode) in the first run and
\* verbs.rewrite_default(key, twin_mode) in the second
TwinRewriteDefault(key, via_mode, twin_mode) ==
  LET a == rewrite_default(registry, bus, events_received, key, via_mode)
      b == rewrite_default(twin.reg, twin.bus, << >>, key, twin_mode)
  IN  /\ Tick
      /\ registry' = a.reg
      /\ bus' = a.bus
      /\ events_received' = a.recv
      /\ last' = [op |-> "rewrite_default", key |-> key,
                  mode |-> via_mode, ok |-> a.ret]
      /\ twin' = [reg |-> b.reg, bus |-> b.bus,
                  last |-> [op |-> "rewrite_default", key |-> key,
                            mode |-> twin_mode, ok |-> b.ret]]
      /\ calls' = Logged([op |-> "rewrite_default", key |-> key,
                          mode |-> via_mode])
      /\ UNCHANGED <<first_read, rig, composed_preset, snapshot, legacy>>

NextTwin ==
  \/ \E key \in InputKeys : TwinReadDefault(key)
  \/ \E key \in InputKeys, m1 \in Modes, m2 \in Modes :
       TwinRewriteDefault(key, m1, m2)

SpecTwin == Init /\ [][NextTwin]_vars

\* ----------------------------------------- a session with the Translator
\* the non-legacy state and the legacy objects other than the Translator
\* and the assumptions
BesideTranslator ==
  <<registry, bus, events_received, calls, first_read, rig,
    composed_preset, snapshot, twin, wrig, manager, inflight, combat>>

\* translator.unlock_ability(ability)
UnlockAbility(ability) ==
  /\ Tick
  /\ translator' = unlock_ability(translator, ability)
  /\ last' = [op |-> "unlock_ability", ability |-> ability]
  /\ UNCHANGED <<assumptions, BesideTranslator>>

\* assumption.reveal()
Reveal(a) ==
  /\ Tick
  /\ assumptions' = [assumptions EXCEPT ![a] = reveal(@)]
  /\ last' = [op |-> "reveal", assumption |-> a]
  /\ UNCHANGED <<translator, BesideTranslator>>

\* translator.read_assumption(assumption)
ReadAssumption(a) ==
  LET r == read_assumption(translator, assumptions, a)
  IN  /\ Tick
      /\ translator' = r.translator
      /\ assumptions' = r.assumptions
      /\ last' = [op |-> "read_assumption", assumption |-> a, ok |-> r.ret]
      /\ UNCHANGED BesideTranslator

\* translator.rewrite_environment(assumption)
RewriteEnvironment(a) ==
  LET r == rewrite_environment(translator, assumptions, a)
  IN  /\ Tick
      /\ translator' = r.translator
      /\ assumptions' = r.assumptions
      /\ last' = [op |-> "rewrite_environment", assumption |-> a,
                  ok |-> r.ret]
      /\ UNCHANGED BesideTranslator

\* translator.update(delta_time)
TranslatorUpdate(delta_time) ==
  /\ Tick
  /\ translator' = Translator_update(translator, delta_time)
  /\ last' = [op |-> "update", delta_time |-> delta_time]
  /\ UNCHANGED <<assumptions, BesideTranslator>>

\* the abilities asked for: the one rewriting needs, and an unknown one
UnlockInputs == {REWRITE_ENVIRONMENT, "no_such_ability"}

\* the frame times, in seconds
Deltas == {1, 2}

NextTranslator ==
  \/ \E ability \in UnlockInputs : UnlockAbility(ability)
  \/ \E a \in AssumptionIds : Reveal(a)
  \/ \E a \in AssumptionIds : ReadAssumption(a)
  \/ \E a \in AssumptionIds : RewriteEnvironment(a)
  \/ \E delta_time \in Deltas : TranslatorUpdate(delta_time)

SpecTranslator == Init /\ [][NextTranslator]_vars

\* ---------------------------------------- a session with the WindprintRig
\* the state the WindprintRig's methods do not touch
BesideRig ==
  <<registry, bus, events_received, calls, first_read, ncalls, rig,
    composed_preset, snapshot, twin, translator, assumptions, manager,
    inflight, combat>>

\* the activations so far
Activations ==
  wrig.mode_activations.cushion + wrig.mode_activations.guard

\* rig.activate_cushion()
RigActivateCushion ==
  LET r == WindprintRig_activate_cushion(wrig)
  IN  /\ Activations < MaxActivations
      /\ wrig' = r.rig
      /\ last' = [op |-> "rig.activate_cushion", ok |-> r.ret]
      /\ UNCHANGED BesideRig

\* rig.activate_guard()
RigActivateGuard ==
  LET r == WindprintRig_activate_guard(wrig)
  IN  /\ Activations < MaxActivations
      /\ wrig' = r.rig
      /\ last' = [op |-> "rig.activate_guard", ok |-> r.ret]
      /\ UNCHANGED BesideRig

\* rig.deactivate()
RigDeactivate ==
  /\ wrig' = WindprintRig_deactivate(wrig)
  /\ last' = [op |-> "rig.deactivate"]
  /\ UNCHANGED BesideRig

\* rig.toggle_mode()
RigToggleMode ==
  LET r == WindprintRig_toggle_mode(wrig)
  IN  /\ Activations < MaxActivations
      /\ wrig' = r.rig
      /\ last' = [op |-> "rig.toggle_mode", mode |-> r.ret]
      /\ UNCHANGED BesideRig

\* rig.update(delta_time)
RigUpdate(delta_time) ==
  /\ wrig' = WindprintRig_update(wrig, delta_time)
  /\ last' = [op |-> "rig.update", delta_time |-> delta_time]
  /\ UNCHANGED BesideRig

\* the frame time of the rig's update, in seconds
RigDeltas == {1}

NextRig ==
  \/ RigActivateCushion
  \/ RigActivateGuard
  \/ RigDeactivate
  \/ RigToggleMode
  \/ \E delta_time \in RigDeltas : RigUpdate(delta_time)

SpecRig == Init /\ [][NextRig]_vars

\* -------------------------------------- a session with the ChapterManager
\* the state the ChapterManager's methods do not touch
BesideManager ==
  <<registry, bus, events_received, calls, first_read, ncalls, rig,
    composed_preset, snapshot, twin, assumptions, wrig, inflight, combat>>

\* manager.start_chapter(chapter_id)
StartChapter(chapter_id) ==
  LET r == start_chapter(manager, translator, chapter_id)
  IN  /\ manager' = r.manager
      /\ translator' = r.translator
      /\ last' = [op |-> "start_chapter", chapter |-> chapter_id,
                  ok |-> r.ret]
      /\ UNCHANGED BesideManager

\* manager.complete_chapter(chapter_id)
CompleteChapter(chapter_id) ==
  LET r == complete_chapter(manager, chapter_id)
  IN  /\ Len(manager.civic_rules_restored) < MaxCompletions
      /\ manager' = r.manager
      /\ last' = [op |-> "complete_chapter", chapter |-> chapter_id,
                  ok |-> r.ret]
      /\ UNCHANGED <<translator, BesideManager>>

\* the chapter numbers passed in: 0 (no chapter), the first chapters, and
\* one past the last
ChapterInputs == 0..4 \cup {TOTAL_CHAPTERS + 1}

NextManager ==
  \/ \E chapter_id \in ChapterInputs : StartChapter(chapter_id)
  \/ \E chapter_id \in ChapterInputs : CompleteChapter(chapter_id)

SpecManager == Init /\ [][NextManager]_vars

\* --------------------------- a session whose handlers use the bus they are on
\* identities of handler callables that call bus.subscribe(e.type, .) or
\* bus.unsubscribe(e.type, .) on the event they are given: one subscribes
\* h1, one unsubscribes h1, one subscribes itself
ReentrantHandlers == {"h1", "sub_h1", "unsub_h1", "again"}

\* the bus after handler h has run on an event of type t
HandlerOnBus(h, b, t) ==
  CASE h = "sub_h1" -> subscribe(b, t, "h1")
    [] h = "unsub_h1" -> unsubscribe(b, t, "h1")
    [] h = "again" -> subscribe(b, t, "again")
    [] OTHER -> b

\* the list object the for loop of emit walks: it is the list in
\* _listeners as long as no unsubscribe has put a new list in its place
Walked ==
  IF inflight[1].live
    THEN ListenersOf(bus, inflight[1].event.type)
    ELSE inflight[1].list

\* the state the handler loop of emit does not touch
BesideDispatch ==
  <<registry, events_received, calls, first_read, ncalls, rig,
    composed_preset, snapshot, twin, translator, assumptions, wrig, manager,
    combat>>

\* bus.emit(Event(t, {})) up to the start of its for loop: the history has
\* the event, and the loop holds the list _listeners.get(t, []) gave it
EmitBegin(t) ==
  LET ev == [type |-> t, data |-> << >>, source |-> VerbSource]
  IN  /\ inflight = None
      /\ Tick
      /\ bus' = [bus EXCEPT !.history = Append(@, ev)]
      /\ inflight' = Some([event |-> ev,
                           at_emit |-> ListenersOf(bus, t),
                           live |-> t \in DOMAIN bus.listeners,
                           list |-> ListenersOf(bus, t),
                           next |-> 1,
                           invoked |-> << >>])
      /\ last' = [op |-> "emit.begin", type |-> t]
      /\ UNCHANGED <<registry, events_received, calls, first_read, rig,
                     composed_preset, snapshot, twin, translator,
                     assumptions, wrig, manager, combat>>

\* one turn of the for loop: the handler at the loop's position runs
EmitStep ==
  /\ inflight # None
  /\ inflight[1].next <= Len(Walked)
  /\ Len(inflight[1].invoked) < MaxInvocations
  /\ LET f == inflight[1]
         h == Walked[f.next]
         replaced == h = "unsub_h1" /\ f.event.type \in DOMAIN bus.listeners
     IN  /\ bus' = HandlerOnBus(h, bus, f.event.type)
         /\ inflight' = Some([f EXCEPT !.next = @ + 1,
                                      !.invoked = Append(@, h),
                                      !.live = @ /\ ~replaced,
                                      !.list = Walked])
         /\ last' = [op |-> "emit.handler", handler |-> h]
  /\ UNCHANGED BesideDispatch

\* the for loop has come to the end of its list: emit returns
EmitReturn ==
  /\ inflight # None
  /\ inflight[1].next > Len(Walked)
  /\ inflight' = None
  /\ last' = [op |-> "emit", at_emit |-> inflight[1].at_emit,
              invoked |-> inflight[1].invoked]
  /\ UNCHANGED <<bus, BesideDispatch>>

\* the event type of the session
ReentrantTypes == {DEFAULT_READ}

NextReentrant ==
  \/ \E t \in ReentrantTypes, h \in ReentrantHandlers :
       inflight = None /\ Subscribe(t, h)
  \/ \E t \in ReentrantTypes, h \in ReentrantHandlers :
       inflight = None /\ Unsubscribe(t, h)
  \/ \E t \in ReentrantTypes : EmitBegin(t)
  \/ EmitStep
  \/ EmitReturn

SpecReentrant == Init /\ [][NextReentrant]_vars

\* ------------------------------------------ a session with the CombatSystem
\* the state the CombatSystem's methods do not touch
BesideCombat ==
  <<registry, bus, events_received, calls, first_read, ncalls, rig,
    composed_preset, snapshot, twin, assumptions, wrig, manager, inflight>>

\* combat.unlock_verb(verb)
UnlockVerb(verb) ==
  /\ combat' = unlock_verb(combat, verb)
  /\ last' = [op |-> "unlock_verb", verb |-> verb]
  /\ UNCHANGED <<translator, BesideCombat>>

\* combat.start_encounter(create_..._encounter(name, n names, position))
StartEncounter(kind, n) ==
  /\ Len(combat.active_encounters) < MaxEncounters
  /\ combat' = start_encounter(combat, create_encounter(kind, n))
  /\ last' = [op |-> "start_encounter", kind |-> kind, patterns |-> n]
  /\ UNCHANGED <<translator, BesideCombat>>

\* the successful verb uses so far
VerbUses ==
  combat.verbs_used["pulse"] + combat.verbs_used["thread_lash"]
    + combat.verbs_used["radiant_hold"] + combat.verbs_used["edge_claim"]
    + combat.verbs_used["retune"]

\* combat.use_verb(verb_id)
UseVerb(verb_id) ==
  LET r == use_verb(combat, verb_id)
  IN  /\ VerbUses < MaxVerbUses
      /\ combat' = r.combat
      /\ last' = [op |-> "use_verb", verb |-> verb_id, ok |-> r.success]
      /\ UNCHANGED <<translator, BesideCombat>>

\* translator.update(delta_time): time passes between two calls
CombatUpdate(delta_time) ==
  /\ combat' = combat_update(combat, delta_time)
  /\ translator' = Translator_update(translator, delta_time)
  /\ last' = [op |-> "update", delta_time |-> delta_time]
  /\ UNCHANGED BesideCombat

\* the verbs asked for: two of the five, and one that does not exist
VerbInputs == {"pulse", "thread_lash", "no_such_verb"}

\* the pattern classes of the encounters started
EncounterKinds == {ECHO_FORM, DISTORTION}

\* the number of patterns of an encounter started
PatternCounts == {0, 1, MaxPatterns}

NextCombat ==
  \/ \E verb \in VerbInputs : UnlockVerb(verb)
  \/ \E kind \in EncounterKinds, n \in PatternCounts : StartEncounter(kind, n)
  \/ \E verb_id \in VerbInputs : UseVerb(verb_id)
  \/ \E delta_time \in RigDeltas : CombatUpdate(delta_time)

SpecCombat == Init /\ [][NextCombat]_vars

\* ------------------------------- a playthrough with the TranslationVerbs
\* verbs.read_default(key) on a key of the chapter in play that has not
\* been read
PlayReadDefault(key) ==
  LET r == read_default(registry, bus, events_received, key)
  IN  /\ key \in KeysInPlay(registry)
      /\ ~registry[key].is_read
      /\ registry' = r.reg
      /\ bus' = r.bus
      /\ events_received' = r.recv
      /\ last' = IF r.raised
                    THEN [op |-> "read_default", key |-> key, raised |-> TRUE]
                    ELSE [op |-> "read_default", key |-> key, text |-> r.ret]
      /\ calls' = Logged([op |-> "read_default", key |-> key])
      /\ first_read' = NoteRead(key, r.ret)
      /\ UNCHANGED <<ncalls, aux>>

\* verbs.rewrite_default(key, via_mode) on a key of the chapter in play
\* that has not been rewritten
PlayRewriteDefault(key, via_mode) ==
  LET r == rewrite_default(registry, bus, events_received, key, via_mode)
  IN  /\ key \in KeysInPlay(registry)
      /\ ~registry[key].is_rewritten
      /\ registry' = r.reg
      /\ bus' = r.bus
      /\ events_received' = r.recv
      /\ last' = IF r.raised
                    THEN [op |-> "rewrite_default", key |-> key,
                          mode |-> via_mode, raised |-> TRUE]
                    ELSE [op |-> "rewrite_default", key |-> key,
                          mode |-> via_mode, ok |-> r.ret]
      /\ calls' = Logged([op |-> "rewrite_default", key |-> key,
                          mode |-> via_mode])
      /\ UNCHANGED <<first_read, ncalls, aux>>

\* the mode the player rewrites under
PlayModes == {CUSHION}

NextCompletion ==
  \/ \E key \in ChapterKeys : PlayReadDefault(key)
  \/ \E key \in ChapterKeys, via_mode \in PlayModes :
       PlayRewriteDefault(key, via_mode)

\* the player goes on: a read_default that can be made is made, and so is a
\* rewrite_default
PlayerGoesOn ==
  \A key \in ChapterKeys :
    /\ WF_vars(PlayReadDefault(key))
    /\ WF_vars(\E via_mode \in PlayModes : PlayRewriteDefault(key, via_mode))

SpecCompletion == Init /\ [][NextCompletion]_vars /\ PlayerGoesOn

\* ------------------------------------------------------------ properties
\* keys of the registry
Keys == DOMAIN registry

\* the step just taken was a rewrite call, direct or through the verbs
RewriteCalled(k) ==
  /\ last'.op \in {"rewrite", "rewrite_default"}
  /\ last'.key = k

\* the step just taken was a read call, direct or through the verbs
ReadCalled(k) ==
  /\ last'.op \in {"read", "read_default"}
  /\ last'.key = k

\* C1 (read-gate): a rewrite call on a registered Default, made directly
\* on the registry or through rewrite_default, returns true exactly when
\* the Default's is_read was true when the call was made.
C1_ReadGate ==
  [][\A k \in Keys : RewriteCalled(k) => (last'.ok = registry[k].is_read)]_vars

\* C1 witness: rewrite_default succeeded on one key after another key had
\* already been read and rewritten.
C1_Witness ==
  /\ last.op = "rewrite_default"
  /\ last.key = "coyote_time"
  /\ last.ok = TRUE
  /\ registry["timing_window"].is_rewritten

\* C2 (value consistency): every Default shows rewritten_value when
\* is_rewritten and rigid_value otherwise.
C2_ValueConsistency ==
  \A k \in Keys :
    registry[k].current_value =
      IF registry[k].is_rewritten THEN registry[k].rewritten_value
      ELSE registry[k].rigid_value

\* C2 witness: one Default rewritten, another read and still rigid.
C2_Witness ==
  /\ registry["timing_window"].is_rewritten
  /\ registry["timing_window"].current_value = 50
  /\ registry["coyote_time"].is_read
  /\ ~registry["coyote_time"].is_rewritten

\* C3 (state machine): is_rewritten implies is_read in every state; no
\* step turns is_read or is_rewritten from true to false; and no step
\* changes the current_value of a Default that is rewritten.
C3_StateMachine ==
  /\ [](\A k \in Keys : registry[k].is_rewritten => registry[k].is_read)
  /\ [][\A k \in Keys :
          /\ registry[k].is_read => registry'[k].is_read
          /\ registry[k].is_rewritten =>
               /\ registry'[k].is_rewritten
               /\ registry'[k].current_value = registry[k].current_value]_vars

\* C3 witness: a Default that is already rewritten has just been read again.
C3_Witness ==
  /\ last.op \in {"read", "read_default"}
  /\ last.key \in Keys
  /\ registry[last.key].is_rewritten

\* the bus history holds every event emitted in the session
HistoryComplete ==
  /\ calls.complete
  /\ \A i \in 1..Len(calls.log) : calls.log[i].op # "clear_history"

\* number of DefaultRead events for key among the first n of the history
ReadEventsBefore(key, n) ==
  Cardinality({i \in 1..n : /\ bus.history[i].type = DEFAULT_READ
                            /\ bus.history[i].data.key = key})

\* C4 (event ordering, as claimed): when rewrite_default(key) has just
\* succeeded, exactly one DefaultRead event for key precedes its
\* DefaultRewritten event on the bus.
C4_ExactlyOneReadEvent ==
  (/\ last.op = "rewrite_default"
   /\ last.ok = TRUE
   /\ HistoryComplete)
  => ReadEventsBefore(last.key, Len(bus.history) - 1) = 1

\* C5 (mutate before emit): every handler invoked for a DefaultRewritten
\* event saw registry.get(key) == rewritten_value and is_rewritten true.
C5_SubscriberSeesRewritten ==
  \A i \in 1..Len(events_received) :
    LET x == events_received[i]
    IN  x.event.type = DEFAULT_REWRITTEN =>
          /\ x.seen_value = Some(registry[x.event.data.key].rewritten_value)
          /\ x.seen_rewritten = TRUE

\* C5 witness: a handler has been invoked for a DefaultRewritten event.
C5_Witness ==
  \E i \in 1..Len(events_received) :
    /\ events_received[i].event.type = DEFAULT_REWRITTEN
    /\ events_received[i].seen_value = Some(50)

\* C6 (rewrite before read): a rewrite call on a registered key that is
\* not read returns false and changes no Default, appends nothing to the
\* history and invokes no handler.
C6_RewriteBeforeReadFails ==
  [][\A k \in Keys :
       (RewriteCalled(k) /\ ~registry[k].is_read) =>
          /\ last'.ok = FALSE
          /\ registry' = registry
          /\ bus' = bus
          /\ events_received' = events_received]_vars

\* C6 witness: rewrite_default was refused on an unread key while a
\* handler was subscribed to DefaultRewritten.
C6_Witness ==
  /\ last.op = "rewrite_default"
  /\ last.key \in Keys
  /\ last.ok = FALSE
  /\ ~registry[last.key].is_read
  /\ registry[last.key].current_value = registry[last.key].rigid_value
  /\ Len(ListenersOf(bus, DEFAULT_REWRITTEN)) > 0

\* C7 (unknown key): for a key that is not registered get returns None;
\* read and read_default return None, rewrite and rewrite_default return
\* false, and the call changes no Default and emits nothing.
C7_UnknownKey ==
  /\ [](\A key \in InputKeys \ Keys : Registry_get(registry, key) = None)
  /\ [][\A key \in InputKeys \ Keys :
          /\ ReadCalled(key) => last'.text = None
          /\ RewriteCalled(key) => last'.ok = FALSE
          /\ (ReadCalled(key) \/ RewriteCalled(key)) =>
               /\ registry' = registry
               /\ bus' = bus
               /\ events_received' = events_received]_vars

\* C7 witness: read_default was called with an unknown key while a handler
\* was subscribed to DefaultRead.
C7_Witness ==
  /\ last.op = "read_default"
  /\ last.key \notin Keys
  /\ Len(ListenersOf(bus, DEFAULT_READ)) > 0

\* the Event read_default builds for key when the registry returned text
ReadEvent(key, text) ==
  [type |-> DEFAULT_READ,
   data |-> [key |-> key, description |-> text],
   source |-> VerbSource]

\* the Event rewrite_default builds for key and via_mode
RewrittenEvent(key, via_mode) ==
  [type |-> DEFAULT_REWRITTEN,
   data |-> [key |-> key, mode |-> via_mode],
   source |-> VerbSource]

\* who received what, in order
Deliveries(recv) ==
  [i \in 1..Len(recv) |-> <<recv[i].handler, recv[i].event>>]

\* one delivery of ev to each handler of ls, in the order of ls
DeliveredTo(ls, ev) == [i \in 1..Len(ls) |-> <<ls[i], ev>>]

\* the session so far is read_default(k) followed by rewrite_default(k, m)
\* on a new registry and bus (subscriptions aside)
ScenarioB(k, m) ==
  /\ calls.complete
  /\ calls.log = << [op |-> "read_default", key |-> k],
                    [op |-> "rewrite_default", key |-> k, mode |-> m] >>

\* C8 (one event per successful verb): a successful read_default(key)
\* appends exactly one DefaultRead event carrying the key and the returned
\* description, a successful rewrite_default(key, mode) exactly one
\* DefaultRewritten event carrying the key and the mode, each delivered
\* once to every handler subscribed to its type; and after read_default(k),
\* rewrite_default(k) on a new registry and bus the rewrite has returned
\* true, get(k) is rewritten_value, the history is [DefaultRead,
\* DefaultRewritten] and handlers received nothing else, in that order.
C8_OneEventPerVerb ==
  /\ [][\A k \in Keys :
          /\ (last'.op = "read_default" /\ last'.key = k) =>
               /\ last'.text # None
               /\ bus'.history =
                    Append(bus.history, ReadEvent(k, last'.text[1]))
               /\ Deliveries(events_received') =
                    Deliveries(events_received) \o
                    DeliveredTo(ListenersOf(bus, DEFAULT_READ),
                                ReadEvent(k, last'.text[1]))
          /\ (last'.op = "rewrite_default" /\ last'.key = k
              /\ last'.ok = TRUE) =>
               /\ bus'.history =
                    Append(bus.history, RewrittenEvent(k, last'.mode))
               /\ Deliveries(events_received') =
                    Deliveries(events_received) \o
                    DeliveredTo(ListenersOf(bus, DEFAULT_REWRITTEN),
                                RewrittenEvent(k, last'.mode))]_vars
  /\ [](\A k \in Keys, m \in Modes :
          ScenarioB(k, m) =>
            /\ last.op = "rewrite_default" => last.ok = TRUE
            /\ Registry_get(registry, k) = Some(registry[k].rewritten_value)
            /\ bus.history =
                 << ReadEvent(k, Describe(NewDefault(
                       CHOOSE c \in {Catalog[i] : i \in 1..Len(Catalog)} :
                         c.key = k))),
                    RewrittenEvent(k, m) >>
            /\ \A i \in 1..Len(events_received) :
                 /\ events_received[i].event \in
                      {bus.history[1], bus.history[2]}
                 /\ \A j \in 1..Len(events_received) :
                      (/\ events_received[i].event = bus.history[2]
                       /\ events_received[j].event = bus.history[1])
                      => j < i)

\* C8 witness: the stress test's session: a handler subscribed to both
\* types, read_default then rewrite_default of timing_window via cushion,
\* and the handler holding exactly the two events in order.
C8_Witness ==
  /\ ScenarioB("timing_window", "cushion")
  /\ last.op = "rewrite_default"
  /\ Len(bus.history) = 2
  /\ Len(events_received) = 2
  /\ events_received[1].event.type = DEFAULT_READ
  /\ events_received[2].event.type = DEFAULT_REWRITTEN
  /\ events_received[1].handler = events_received[2].handler

\* C9 (progress monotonicity): no step decreases progress, rewritten_count
\* or read_count.
C9_ProgressMonotone ==
  [][/\ progress(registry').num * progress(registry).den
          >= progress(registry).num * progress(registry').den
     /\ rewritten_count(registry') >= rewritten_count(registry)
     /\ read_count(registry') >= read_count(registry)]_vars

\* C9 witness: two Defaults of the fifteen are rewritten and a further
\* rewrite call has been made.
C9_Witness ==
  /\ progress(registry) = [num |-> 2, den |-> 15]
  /\ read_count(registry) = 2
  /\ last.op \in {"rewrite", "rewrite_default"}

\* C10 (read idempotence, as claimed): a read of a Default that is already
\* read returns the text of the first read and leaves the Default as it was.
C10_SameAsFirstRead ==
  [][\A k \in Keys :
       (ReadCalled(k) /\ registry[k].is_read) =>
          /\ last'.text = first_read[k]
          /\ registry'[k] = registry[k]]_vars

\* C10 (read idempotence, amended): a read of a Default that is already
\* read changes no Default; it returns the text of the first read as long
\* as the Default has not been rewritten since, and afterwards that text
\* with rewritten_value as its current value.
C10_ReadIdempotent ==
  [][\A k \in Keys :
       (ReadCalled(k) /\ registry[k].is_read) =>
          /\ registry' = registry
          /\ last'.text =
               IF registry[k].is_rewritten
                 THEN Some([first_read[k][1] EXCEPT
                              !.current_value = registry[k].rewritten_value])
                 ELSE first_read[k]]_vars

\* C10 witness: read_default on a rewritten Default returned a text that
\* differs from the one its first read returned.
C10_Witness ==
  /\ last.op = "read_default"
  /\ last.key \in Keys
  /\ registry[last.key].is_rewritten
  /\ first_read[last.key] # None
  /\ last.text # first_read[last.key]

\* C11 (rewrite idempotence): a rewrite call on a Default that is already
\* rewritten returns true and leaves every field of every Default unchanged.
C11_RewriteIdempotent ==
  [][\A k \in Keys :
       (RewriteCalled(k) /\ registry[k].is_rewritten) =>
          /\ last'.ok = TRUE
          /\ registry' = registry]_vars

\* C11 witness: rewrite_default has succeeded twice on the same key, the
\* second time on a Default that was already rewritten.
C11_Witness ==
  /\ last.op = "rewrite_default"
  /\ last.key \in Keys
  /\ last.ok = TRUE
  /\ Cardinality({i \in 1..Len(bus.history) :
                    /\ bus.history[i].type = DEFAULT_REWRITTEN
                    /\ bus.history[i].data.key = last.key}) = 2

\* the fields of a Default that are set at registration
Fixed(d) ==
  [key |-> d.key, label |-> d.label, description |-> d.description,
   category |-> d.category,
   rigid_value |-> d.rigid_value, rewritten_value |-> d.rewritten_value]

\* C12 (fixed catalog and frame): no step changes the set of registered
\* keys or the key, label, description, category, rigid_value or
\* rewritten_value of a Default; a read of k changes at most is_read of k,
\* a rewrite of k at most is_rewritten and current_value of k, and neither
\* changes a Default with another key.
C12_FixedCatalogAndFrame ==
  [][/\ DOMAIN registry' = DOMAIN registry
     /\ \A k \in Keys : Fixed(registry'[k]) = Fixed(registry[k])
     /\ \A k \in Keys :
          /\ ReadCalled(k) =>
               registry' =
                 [registry EXCEPT ![k].is_read = registry'[k].is_read]
          /\ RewriteCalled(k) =>
               registry' =
                 [registry EXCEPT
                    ![k].is_rewritten = registry'[k].is_rewritten,
                    ![k].current_value = registry'[k].current_value]]_vars

\* C12 witness: timing_window has just been rewritten while coyote_time,
\* read earlier, is still read and rigid.
C12_Witness ==
  /\ last.op = "rewrite"
  /\ last.key = "timing_window"
  /\ last.ok = TRUE
  /\ registry["coyote_time"].is_read
  /\ ~registry["coyote_time"].is_rewritten
  /\ registry["coyote_time"].current_value = 0

\* how many entries of the sequence s satisfy Test
CountIn(s, Test(_)) == Cardinality({i \in 1..Len(s) : Test(s[i])})

\* the deliveries a step added to events_received
NewDeliveries ==
  SubSeq(Deliveries(events_received'),
         Len(events_received) + 1, Len(events_received'))

\* C15 (synchronous ordered dispatch): when a call has emitted an event e,
\* then by the time the call has returned every handler subscribed to
\* e.type has been invoked with e once per subscription, in subscription
\* order, and no handler has been invoked on behalf of another type's
\* subscription; a call that emits nothing invokes no handler.
C15_OrderedDispatch ==
  [][/\ events_received = SubSeq(events_received', 1, Len(events_received))
     /\ IF Len(bus'.history) = Len(bus.history) + 1
          THEN LET e  == bus'.history[Len(bus'.history)]
                   ls == ListenersOf(bus, e.type)
               IN  /\ Len(NewDeliveries) = Len(ls)
                   /\ \A i \in 1..Len(ls) : NewDeliveries[i] = <<ls[i], e>>
                   /\ \A h \in Handlers :
                        CountIn(NewDeliveries, LAMBDA d : d[1] = h) =
                        CountIn(ls, LAMBDA x : x = h)
                   /\ \A t \in Types \ {e.type} :
                        \A h \in Handlers :
                          (/\ CountIn(ListenersOf(bus, t), LAMBDA x : x = h) > 0
                           /\ CountIn(ls, LAMBDA x : x = h) = 0)
                          => CountIn(NewDeliveries, LAMBDA d : d[1] = h) = 0
          ELSE events_received' = events_received]_vars

\* h2 then h1 subscribed to DefaultRead, h2 alone to DefaultRewritten; a
\* read_default has delivered its event to h2 and then to h1
C15_Witness ==
  /\ last.op = "read_default"
  /\ ListenersOf(bus, DEFAULT_READ) = <<"h2", "h1">>
  /\ Len(bus.history) = 1
  /\ Deliveries(events_received) =
       << <<"h2", bus.history[1]>>, <<"h1", bus.history[1]>> >>

\* h is among the handlers ls
Subscribed(ls, h) == \E i \in 1..Len(ls) : ls[i] = h

\* C17 (unsubscribe): unsubscribe(t, h) returns normally, leaves t's other
\* handlers in their order, leaves every other type's subscriptions, the
\* history, the registry and the received events alone, and changes
\* nothing at all when h was not subscribed to t; and an emit of type t
\* while h is not subscribed to t does not invoke h.
C17_Unsubscribe ==
  [][/\ \A t \in Types, h \in Handlers :
          (last'.op = "unsubscribe" /\ last'.type = t /\ last'.handler = h) =>
             /\ "raised" \notin DOMAIN last'
             /\ ~Subscribed(ListenersOf(bus', t), h)
             /\ ListenersOf(bus', t) =
                  SelectSeq(ListenersOf(bus, t), LAMBDA x : x # h)
             /\ \A u \in Types \ {t} :
                  ListenersOf(bus', u) = ListenersOf(bus, u)
             /\ bus'.history = bus.history
             /\ registry' = registry
             /\ events_received' = events_received
             /\ ~Subscribed(ListenersOf(bus, t), h) => bus' = bus
     /\ \A h \in Handlers :
          (/\ Len(bus'.history) = Len(bus.history) + 1
           /\ ~Subscribed(ListenersOf(bus,
                            bus'.history[Len(bus'.history)].type), h))
          => \A i \in Len(events_received) + 1 .. Len(events_received') :
               events_received'[i].handler # h]_vars

\* h1 and h2 were subscribed to DefaultRead and h1 to DefaultRewritten;
\* unsubscribing h1 from DefaultRead has left h2 there and h1 on the
\* other type
C17_Witness ==
  /\ last.op = "unsubscribe"
  /\ last.type = DEFAULT_READ
  /\ last.handler = "h1"
  /\ ListenersOf(bus, DEFAULT_READ) = <<"h2">>
  /\ ListenersOf(bus, DEFAULT_REWRITTEN) = <<"h1">>

\* a raising handler is among the handlers ls
HasRaiser(ls) == \E i \in 1..Len(ls) : ls[i] \in Raisers

\* the handlers of ls that come before its first raising handler
BeforeRaiser(ls) ==
  IF HasRaiser(ls)
    THEN SubSeq(ls, 1, (CHOOSE i \in 1..Len(ls) :
                          /\ ls[i] \in Raisers
                          /\ \A j \in 1..(i - 1) : ls[j] \notin Raisers) - 1)
    ELSE ls

\* the call a step made ended in an exception
Raised == "raised" \in DOMAIN last' /\ last'.raised

\* C18 (handler errors are not swallowed): a read_default of a known key,
\* a rewrite_default that rewrote, and a compose end in the handler's
\* exception exactly when a raising handler is subscribed to the emitted
\* event's type; the handlers subscribed before it have run, those after
\* it have not.
C18_ErrorsPropagate ==
  [][/\ \A k \in Keys :
          (last'.op = "read_default" /\ last'.key = k) =>
             /\ Raised <=> HasRaiser(ListenersOf(bus, DEFAULT_READ))
             /\ Len(events_received') = Len(events_received)
                  + Len(BeforeRaiser(ListenersOf(bus, DEFAULT_READ)))
     /\ \A k \in Keys :
          (/\ last'.op = "rewrite_default" /\ last'.key = k
           /\ registry[k].is_read) =>
             /\ Raised <=> HasRaiser(ListenersOf(bus, DEFAULT_REWRITTEN))
             /\ Len(events_received') = Len(events_received)
                  + Len(BeforeRaiser(ListenersOf(bus, DEFAULT_REWRITTEN)))
     /\ last'.op = "compose" =>
          /\ Raised <=> HasRaiser(ListenersOf(bus, DEFAULTS_CHANGED))
          /\ Len(events_received') = Len(events_received)
               + Len(BeforeRaiser(ListenersOf(bus, DEFAULTS_CHANGED)))]_vars

\* a rewrite_default has rewritten its Default, h1 has received the event,
\* and the call ended in the exception of the handler subscribed after h1
C18_Witness ==
  /\ last.op = "rewrite_default"
  /\ "raised" \in DOMAIN last
  /\ last.raised
  /\ registry[last.key].is_rewritten
  /\ Len(events_received) = 1
  /\ events_received[1].handler = "h1"
  /\ events_received[1].event.type = DEFAULT_REWRITTEN

\* C20 (no dangling references): registry.get(key) is not absent for any
\* key of a chapter's defaults_to_rewrite, of a built-in preset's
\* overrides or of a district's defaults_present.
C20_NoDanglingReferences ==
  \A key \in ChapterKeys \cup PresetKeys \cup DistrictKeys :
    Registry_get(registry, key) # None

\* the registry as constructed: the chapters refer to every one of its
\* keys, the presets and districts to some, and each reference resolves
\* to the Default's rigid value
C20_Witness ==
  /\ last.op = "init"
  /\ ChapterKeys = DOMAIN registry
  /\ "coyote_time" \in PresetKeys
  /\ "jump_buffer" \in DistrictKeys
  /\ \A key \in ChapterKeys \cup PresetKeys \cup DistrictKeys :
       Registry_get(registry, key) = Some(registry[key].rigid_value)

\* C14 (duplicate registration fails loudly, as claimed): registering a
\* Default whose key is already in the registry raises and leaves the
\* registered Default, with its is_read, is_rewritten and current_value,
\* in place.
C14_DuplicateFailsLoudly ==
  [][\A k \in Keys :
       (last'.op = "register" /\ last'.key = k) =>
          /\ last'.raised
          /\ registry'[k] = registry[k]]_vars

\* the registry with nothing registered
EmptyRegistry == << >>

\* C19 (derived counters): progress is rewritten_count over the number of
\* registered Defaults and lies in [0,1], and is 0 for an empty registry;
\* all_rewritten holds exactly when every registered Default is rewritten,
\* and for an empty registry; for a non-empty registry all_rewritten holds
\* exactly when progress is 1; and rewritten_count <= read_count <= total.
C19_DerivedCounters ==
  LET total == Cardinality(Keys)
      p     == progress(registry)
  IN  /\ total > 0
      /\ p.den = total
      /\ p.num = rewritten_count(registry)
      /\ p.num = Cardinality({k \in Keys : registry[k].is_rewritten})
      /\ 0 <= p.num /\ p.num <= p.den
      /\ progress(EmptyRegistry).num = 0
      /\ progress(EmptyRegistry).den > 0
      /\ all_rewritten(registry) <=> (\A k \in Keys : registry[k].is_rewritten)
      /\ all_rewritten(EmptyRegistry)
      /\ all_rewritten(registry) <=> (p.num = p.den)
      /\ rewritten_count(registry) <= read_count(registry)
      /\ read_count(registry) <= total
      /\ read_count(registry) = Cardinality({k \in Keys : registry[k].is_read})

\* the last Default of the last chapter has just been rewritten: every
\* Default is rewritten and progress is 15/15
C19_Witness ==
  /\ last.op = "rewrite"
  /\ last.ok = TRUE
  /\ all_rewritten(registry)
  /\ progress(registry) = [num |-> 15, den |-> 15]
  /\ read_count(registry) = 15

\* C16 (history is the ordered log of emissions): a call that passes an
\* event to emit appends exactly that event to bus.history, subscribers or
\* not; clear_history empties the history and leaves the subscriptions;
\* no other call changes the history, and none changes the earlier
\* entries; the list bus.history returns holds the history's events, and
\* emptying that list leaves the bus as it was.
C16_HistoryIsLog ==
  [][/\ \A k \in Keys :
          /\ (last'.op = "read_default" /\ last'.key = k) =>
               bus'.history = Append(bus.history,
                                     ReadEvent(k, Describe(registry[k])))
          /\ (last'.op = "rewrite_default" /\ last'.key = k) =>
               bus'.history =
                 IF registry[k].is_read
                   THEN Append(bus.history, RewrittenEvent(k, last'.mode))
                   ELSE bus.history
     /\ (last'.op \in {"read_default", "rewrite_default"}
         /\ last'.key \notin Keys) => bus'.history = bus.history
     /\ last'.op = "clear_history" =>
          /\ bus'.history = << >>
          /\ bus'.listeners = bus.listeners
     /\ last'.op \in {"subscribe", "unsubscribe", "history"} =>
          bus'.history = bus.history
     /\ last'.op = "history" =>
          /\ snapshot' # None
          /\ snapshot'[1].items = bus.history
          /\ bus' = bus
     /\ last'.op = "snapshot.clear" =>
          /\ snapshot'[1].items = << >>
          /\ bus' = bus]_vars

\* with no handler subscribed, a read_default and a rewrite_default have
\* been logged in order, the list bus.history returned has been emptied by
\* its caller, and the bus still holds both events
C16_Witness ==
  /\ last.op = "snapshot.clear"
  /\ snapshot # None
  /\ snapshot[1].items = << >>
  /\ bus.listeners = << >>
  /\ Len(bus.history) = 2
  /\ bus.history[1].type = DEFAULT_READ
  /\ bus.history[2].type = DEFAULT_REWRITTEN

\* the calls of the queries and consumers
ConsumerOps ==
  {"get", "list_readable", "list_rewritable", "by_category", "progress",
   "all_rewritten", "scan_area", "get_sensory_profile",
   "get_timing_multiplier", "get_route_flexibility", "activate_cushion",
   "activate_guard", "begin", "compose", "get_npc_reactions"}

\* is_read, is_rewritten and current_value of every Default
Progression(reg) ==
  [k \in DOMAIN reg |->
     [is_read |-> reg[k].is_read, is_rewritten |-> reg[k].is_rewritten,
      current_value |-> reg[k].current_value]]

\* C13 (consumers never write to the registry): every query or consumer
\* call, composing a preset with override values included, leaves
\* is_read, is_rewritten and current_value of every Default as they were.
C13_ConsumersNeverWrite ==
  [][last'.op \in ConsumerOps =>
       /\ DOMAIN registry' = DOMAIN registry
       /\ Progression(registry') = Progression(registry)]_vars

\* the Gentle Current preset, which overrides timing_window with 0.6, has
\* been composed while the rewritten timing_window stands at 0.5, and a
\* subscriber has received the DefaultsChanged event
C13_Witness ==
  /\ last.op = "compose"
  /\ composed_preset # None
  /\ composed_preset[1].values.timing_window = 60
  /\ registry["timing_window"].is_rewritten
  /\ Registry_get(registry, "timing_window") = Some(50)
  /\ Len(events_received) = 1

\* C21 (the sensory profile is built from current registry values): in
\* every reachable state the four numbers of get_sensory_profile are
\* get("visual_clutter"), get("audio_layering"), get("screen_shake") and
\* get("platform_rhythm"); no fallback constant stands in for a value the
\* registry holds, a 0.0 included.
C21_ProfileFromRegistry ==
  LET profile == get_sensory_profile(registry)
  IN  /\ Some(profile.visual_density) = Registry_get(registry, "visual_clutter")
      /\ Some(profile.audio_layers) = Registry_get(registry, "audio_layering")
      /\ Some(profile.screen_shake) = Registry_get(registry, "screen_shake")
      /\ Some(profile.motion_intensity) =
           Registry_get(registry, "platform_rhythm")

\* screen_shake has been rewritten to 0.0 and the profile shows that 0.0,
\* next to the rewritten visual_clutter 0.4 and the rewritten
\* platform_rhythm 0.6
C21_Witness ==
  /\ registry["screen_shake"].is_rewritten
  /\ Registry_get(registry, "screen_shake") = Some(0)
  /\ get_sensory_profile(registry).screen_shake = 0
  /\ get_sensory_profile(registry).visual_density = 40
  /\ get_sensory_profile(registry).motion_intensity = 60

\* C22 (the timing overlay is multiplicative and read-time only): in every
\* reachable state get_timing_multiplier() is get("timing_window") x 1.5
\* under Cushion and get("timing_window") otherwise, so with timing_window
\* rewritten and Cushion active it exceeds the value of a new rig on a new
\* registry; and the query returns that value and writes nothing.
C22_TimingOverlay ==
  /\ [](LET base == Registry_get(registry, "timing_window")
            mult == get_timing_multiplier(rig, registry)
        IN  /\ base # None
            /\ IF rig.active_mode = Some(CUSHION)
                 THEN 2 * mult = 3 * base[1]
                 ELSE mult = base[1]
            /\ (/\ registry["timing_window"].is_rewritten
                /\ rig.active_mode = Some(CUSHION))
               => mult > get_timing_multiplier(Rig_init, Registry_init))
  /\ [][last'.op = "get_timing_multiplier" =>
          /\ last'.multiplier = get_timing_multiplier(rig, registry)
          /\ registry' = registry
          /\ rig' = rig]_vars

\* with timing_window rewritten to 0.5 and Cushion active the query has
\* returned 0.75, and the registry still says 0.5
C22_Witness ==
  /\ last.op = "get_timing_multiplier"
  /\ last.multiplier = 75
  /\ rig.active_mode = Some(CUSHION)
  /\ Registry_get(registry, "timing_window") = Some(50)

\* an event without the mode it may carry
WithoutMode(ev) ==
  [type |-> ev.type, source |-> ev.source,
   data |-> [f \in DOMAIN ev.data \ {"mode"} |-> ev.data[f]]]

\* a call without the mode it may have been given
CallWithoutMode(c) == [f \in DOMAIN c \ {"mode"} |-> c[f]]

\* C23 (via_mode does not influence the registry): two runs of the same
\* read_default / rewrite_default calls on the same keys that differ only
\* in the via_mode strings have returned the same values, hold the same
\* is_read, is_rewritten and current_value for every Default, and have the
\* same history up to the mode field of the DefaultRewritten events, which
\* is the via_mode each run passed.
C23_ModeIndependence ==
  /\ Progression(registry) = Progression(twin.reg)
  /\ CallWithoutMode(last) = CallWithoutMode(twin.last)
  /\ Len(bus.history) = Len(twin.bus.history)
  /\ \A i \in 1..Len(bus.history) :
       WithoutMode(bus.history[i]) = WithoutMode(twin.bus.history[i])
  /\ (last.op = "rewrite_default" /\ last.ok) =>
       /\ bus.history[Len(bus.history)].data.mode = last.mode
       /\ twin.bus.history[Len(bus.history)].data.mode = twin.last.mode

\* timing_window has been rewritten via Cushion in one run and via Guard
\* in the other
C23_Witness ==
  /\ last.op = "rewrite_default"
  /\ last.key = "timing_window"
  /\ last.ok
  /\ last.mode = "cushion"
  /\ twin.last.mode = "guard"
  /\ twin.last.ok
  /\ twin.reg["timing_window"].current_value = 50
  /\ bus.history # twin.bus.history

\* the assumption a call was about
Target == last'.assumption

\* C24 (legacy rewrite gate): rewrite_environment(a) returns True exactly
\* when REWRITE_ENVIRONMENT is unlocked, translation_energy is at least
\* REWRITE_ENERGY_COST, rewrite_cooldown is 0 and a is visible; then a is
\* rewritten, exactly REWRITE_ENERGY_COST is deducted and the cooldown is
\* positive; otherwise the assumption and the Translator are unchanged.
\* Every assumption in environments_rewritten is visible.
C24_LegacyRewriteGate ==
  /\ [](\A i \in 1..Len(translator.environments_rewritten) :
          /\ assumptions[translator.environments_rewritten[i]].is_visible
          /\ assumptions[translator.environments_rewritten[i]].is_rewritten)
  /\ [](\A a \in AssumptionIds :
          assumptions[a].is_rewritten => assumptions[a].is_visible)
  /\ [][last'.op = "rewrite_environment" =>
          /\ last'.ok <=>
               /\ translator.abilities[REWRITE_ENVIRONMENT]
               /\ translator.translation_energy >= REWRITE_ENERGY_COST
               /\ translator.rewrite_cooldown = 0
               /\ assumptions[Target].is_visible
          /\ last'.ok =>
               /\ assumptions'[Target].is_rewritten
               /\ assumptions' =
                    [assumptions EXCEPT ![Target].is_rewritten = TRUE]
               /\ translator'.translation_energy =
                    translator.translation_energy - REWRITE_ENERGY_COST
               /\ translator'.rewrite_cooldown > 0
               /\ translator'.abilities = translator.abilities
          /\ ~last'.ok =>
               /\ assumptions' = assumptions
               /\ translator' = translator]_vars

\* a1 was read and then rewritten through the Translator: 10 energy
\* spent, the cooldown running, and the hidden a2 untouched
C24_Witness ==
  /\ last.op = "rewrite_environment"
  /\ last.assumption = "a1"
  /\ last.ok
  /\ translator.assumptions_read = <<"a1">>
  /\ translator.environments_rewritten = <<"a1">>
  /\ translator.translation_energy = 90
  /\ translator.rewrite_cooldown = 2
  /\ assumptions["a1"].is_rewritten
  /\ ~assumptions["a2"].is_visible

\* what C25 asks of one activation call: mode is the mode it activates
ActivationRule(mode) ==
  IF wrig.current_mode = Some(mode)
    THEN /\ last'.ok
         /\ wrig' = wrig
    ELSE /\ last'.ok <=> wrig.energy >= WINDPRINT_MODE_SWITCH_COST
         /\ last'.ok =>
              /\ wrig'.current_mode = Some(mode)
              /\ wrig'.energy = wrig.energy - WINDPRINT_MODE_SWITCH_COST
         /\ ~last'.ok => wrig' = wrig

\* C25 (WindprintRig mode exclusivity and switch cost): cushion.is_active
\* holds exactly when current_mode is CUSHION and guard.is_active exactly
\* when it is GUARD, never both; energy stays within [0, max_energy];
\* activating a mode that is not active succeeds exactly when energy is at
\* least WINDPRINT_MODE_SWITCH_COST and deducts exactly that, activating
\* the active mode returns True and changes nothing, and a refused
\* activation changes nothing.
C25_ModeExclusivity ==
  /\ [](/\ wrig.cushion.is_active <=> wrig.current_mode = Some(CUSHION)
        /\ wrig.guard.is_active <=> wrig.current_mode = Some(GUARD)
        /\ ~(wrig.cushion.is_active /\ wrig.guard.is_active)
        /\ 0 <= wrig.energy
        /\ wrig.energy <= wrig.max_energy)
  /\ [][/\ last'.op = "rig.activate_cushion" => ActivationRule(CUSHION)
        /\ last'.op = "rig.activate_guard" => ActivationRule(GUARD)]_vars

\* twenty switches have used up the energy: under Cushion, with energy 0,
\* an activate_guard has been refused
C25_Witness ==
  /\ last.op = "rig.activate_guard"
  /\ ~last.ok
  /\ wrig.energy = 0
  /\ wrig.current_mode = Some(CUSHION)
  /\ wrig.cushion.is_active
  /\ ~wrig.guard.is_active

\* the chapters completed so far, from the record the completions append to
CompletedEarlier == Range(manager.civic_rules_restored)

\* the place of the first completion of chapter k in that record
FirstCompletion(k) ==
  CHOOSE i \in DOMAIN manager.civic_rules_restored :
    /\ manager.civic_rules_restored[i] = k
    /\ \A j \in 1..(i - 1) : manager.civic_rules_restored[j] # k

\* the chapter a complete_chapter call is about
CompletionTarget ==
  IF last'.chapter = 0 THEN manager.current_chapter_id ELSE last'.chapter

\* C26 (chapter progression gate): the manager starts with chapter 1
\* AVAILABLE and every other chapter LOCKED; start_chapter(k) for k > 1
\* succeeds only if chapter k-1 has been completed; complete_chapter(k)
\* succeeds only when chapter k is IN_PROGRESS, and then makes chapter k+1
\* AVAILABLE; so the first completions come in strictly increasing order,
\* and whenever a chapter k > 1 is IN_PROGRESS or COMPLETED, chapter k-1
\* was completed earlier.
C26_ProgressionGate ==
  /\ manager.chapters =
       [i \in 1..TOTAL_CHAPTERS |-> IF i = 1 THEN AVAILABLE ELSE LOCKED]
  /\ [](/\ \A k \in 2..TOTAL_CHAPTERS :
             manager.chapters[k] \in {IN_PROGRESS, COMPLETED}
               => (k - 1) \in CompletedEarlier
        /\ \A a, b \in CompletedEarlier :
             FirstCompletion(a) < FirstCompletion(b) => a < b)
  /\ [][/\ (last'.op = "start_chapter" /\ last'.ok /\ last'.chapter > 1)
             => (last'.chapter - 1) \in CompletedEarlier
        /\ (last'.op = "complete_chapter" /\ last'.ok)
             => /\ CompletionTarget \in DOMAIN manager.chapters
                /\ manager.chapters[CompletionTarget] = IN_PROGRESS
                /\ manager'.chapters[CompletionTarget] = COMPLETED
                /\ CompletionTarget < TOTAL_CHAPTERS
                     => manager'.chapters[CompletionTarget + 1] = AVAILABLE]_vars

\* chapters 1 and 2 have been completed in that order, chapter 3 has been
\* started, and chapter 4 is still locked
C26_Witness ==
  /\ last.op = "start_chapter"
  /\ last.ok
  /\ last.chapter = 3
  /\ manager.civic_rules_restored = <<1, 2>>
  /\ manager.chapters[3] = IN_PROGRESS
  /\ manager.chapters[4] = LOCKED

\* s is the beginning of t
IsPrefix(s, t) ==
  /\ Len(s) <= Len(t)
  /\ \A i \in 1..Len(s) : s[i] = t[i]

\* C27 (re-entrant dispatch): emit(e) calls exactly the handlers that were
\* subscribed to e.type when emit was called, in their order: while the
\* loop runs it has called a beginning of that list, and when emit returns
\* it has called all of it, whatever the handlers subscribed or
\* unsubscribed meanwhile.
C27_InFlightDelivery ==
  /\ inflight # None => IsPrefix(inflight[1].invoked, inflight[1].at_emit)
  /\ last.op = "emit" => last.invoked = last.at_emit

\* an emit has returned after it called a handler that was subscribed only
\* while the event was being dispatched
C27_LateSubscriberCalled ==
  /\ last.op = "emit"
  /\ last.at_emit = <<"sub_h1">>
  /\ last.invoked = <<"sub_h1", "h1">>

\* a handler that subscribes itself keeps the loop of one emit going: it
\* has been called MaxInvocations times and the list has grown again
C27_SelfSubscriberLoops ==
  /\ inflight # None
  /\ inflight[1].at_emit = <<"again">>
  /\ Len(inflight[1].invoked) = MaxInvocations
  /\ inflight[1].next <= Len(Walked)

\* a handler unsubscribed during the dispatch is still called for the event
\* in flight
C27_UnsubscribedStillCalled ==
  /\ last.op = "emit"
  /\ last.at_emit = <<"unsub_h1", "h1">>
  /\ last.invoked = <<"unsub_h1", "h1">>
  /\ ListenersOf(bus, DEFAULT_READ) = <<"unsub_h1">>

\* C28 (no rollback on handler failure): when a subscriber raises while
\* rewrite_default(key) dispatches its DefaultRewritten event, the Default
\* stays rewritten and shows rewritten_value, the event is in the bus
\* history, the handlers subscribed after the raising one have not been
\* called for it, and in the state left behind every Default still shows
\* the value its is_rewritten asks for and is read if it is rewritten.
C28_NoRollback ==
  [][\A k \in Keys :
       (last'.op = "rewrite_default" /\ last'.key = k /\ Raised) =>
          /\ registry'[k].is_rewritten
          /\ registry'[k].current_value = registry'[k].rewritten_value
          /\ bus'.history =
               Append(bus.history, RewrittenEvent(k, last'.mode))
          /\ NewDeliveries =
               DeliveredTo(BeforeRaiser(ListenersOf(bus, DEFAULT_REWRITTEN)),
                           RewrittenEvent(k, last'.mode))
          /\ \A d \in Keys :
               /\ registry'[d].current_value =
                    IF registry'[d].is_rewritten
                      THEN registry'[d].rewritten_value
                      ELSE registry'[d].rigid_value
               /\ registry'[d].is_rewritten => registry'[d].is_read]_vars

\* the raising handler was subscribed before h1: the rewrite_default ended
\* in its exception, h1 has received nothing, the Default is rewritten and
\* its event is the last of the history
C28_Witness ==
  /\ last.op = "rewrite_default"
  /\ "raised" \in DOMAIN last
  /\ last.raised
  /\ ListenersOf(bus, DEFAULT_REWRITTEN) = <<"boom", "h1">>
  /\ events_received = << >>
  /\ registry[last.key].is_rewritten
  /\ registry[last.key].current_value = registry[last.key].rewritten_value
  /\ bus.history[Len(bus.history)].type = DEFAULT_REWRITTEN

\* the started encounters that are resolved
ResolvedEncounters ==
  {i \in DOMAIN combat.active_encounters :
     combat.active_encounters[i].is_resolved}

\* the resolved patterns of the started encounters
ResolvedPatterns ==
  {ij \in {<<i, j>> : i \in DOMAIN combat.active_encounters,
                      j \in 1..MaxPatterns} :
     /\ ij[2] \in DOMAIN combat.active_encounters[ij[1]].patterns
     /\ combat.active_encounters[ij[1]].patterns[ij[2]].is_resolved}

\* C29 (combat statistics count each thing once): after any sequence of
\* start_encounter and use_verb calls encounters_completed is the number
\* of started encounters that are resolved, and patterns_resolved is the
\* number of resolved patterns in the started encounters.
C29_CountedOnce ==
  /\ combat.encounters_completed = Cardinality(ResolvedEncounters)
  /\ combat.patterns_resolved = Cardinality(ResolvedPatterns)

\* the half of C29 about patterns: patterns_resolved is the number of
\* resolved patterns in the started encounters
C29_PatternsCountedOnce ==
  combat.patterns_resolved = Cardinality(ResolvedPatterns)

\* one encounter without patterns, two successful verbs: the encounter has
\* been counted twice
C29_CountedTwice ==
  /\ Len(combat.active_encounters) = 1
  /\ combat.active_encounters[1].is_resolved
  /\ combat.encounters_completed = 2

\* a Distortion has been resolved by two pulses and its encounter has been
\* counted in that call
C29_ResolvedByVerbs ==
  /\ last.op = "use_verb"
  /\ last.ok
  /\ Len(combat.active_encounters) = 1
  /\ Len(combat.active_encounters[1].patterns) = 1
  /\ combat.active_encounters[1].patterns[1].is_resolved
  /\ combat.patterns_resolved = 1
  /\ combat.encounters_completed = 1

\* how often key stands in the chapters' defaults_to_rewrite lists
TimesListed(key) ==
  Cardinality({ni \in UNION {{<<n, i>> : i \in DOMAIN CHAPTERS[n]} :
                                n \in DOMAIN CHAPTERS} :
                 CHAPTERS[ni[1]][ni[2]] = key})

RECURSIVE FinishFrom(_, _, _)
\* the registry after read and then rewrite on each of the keys ks[i..]
FinishFrom(reg, ks, i) ==
  IF i > Len(ks) THEN reg
  ELSE FinishFrom(
         Registry_rewrite(Registry_read(reg, ks[i]).reg, ks[i]).reg,
         ks, i + 1)

\* C30 (completion is always reachable): every registry key stands exactly
\* once in the chapters' defaults_to_rewrite lists; from every reachable
\* state reading and rewriting the keys still leads to all_rewritten(); and
\* when the player goes through the chapters in order, reading and then
\* rewriting each key, then from some moment on all_rewritten() is true and
\* progress is 1.0 for good.
C30_CompletionReachable ==
  /\ [](/\ \A key \in Keys : TimesListed(key) = 1
        /\ ChapterKeys = Keys
        /\ all_rewritten(FinishFrom(registry, KeyOrder(registry), 1)))
  /\ <>[](/\ all_rewritten(registry)
          /\ progress(registry).num = progress(registry).den)

\* the playthrough is over: the last key has been rewritten through the
\* verbs, one DefaultRewritten event per key is in the history, and
\* nothing is left to rewrite
C30_Witness ==
  /\ last.op = "rewrite_default"
  /\ last.key = "jump_buffer"
  /\ last.ok
  /\ all_rewritten(registry)
  /\ progress(registry) = [num |-> 15, den |-> 15]
  /\ Cardinality({i \in 1..Len(bus.history) :
                    bus.history[i].type = DEFAULT_REWRITTEN}) = 15
====
